---- MODULE Spec2Model ----
(***************************************************************************)
(* The Modulino Distance driver (src/src/distance.rs) over an embedded-hal *)
(* I2C bus.  The driver owns the bus and an address; every public method   *)
(* is one action that issues the method's bus transactions in order and    *)
(* stops at the first one the bus rejects (the `?` operator).              *)
(*                                                                         *)
(* log    : the bus transactions issued by the most recent method call     *)
(* result : what that call returned                                        *)
(* phase  : "none" before construction / after release, "ready" between   *)
(* address: the `address` field of the driver                              *)
(* self   : the other fields of the driver object (none for Distance)      *)
(* device : the registers of the attached device that keep what was last   *)
(*          written to them                                                *)
(***************************************************************************)
EXTENDS Integers, Sequences, FiniteSets, TLC

VARIABLES phase, address, log, result, self, device

vars == <<phase, address, log, result, self, device>>

(***************************************************************************)
(* Integer types.  A u32 is a pair <<hi, lo>> of 16-bit halves, so that    *)
(* the whole 32-bit range is representable.                                *)
(***************************************************************************)
U8 == 0..255

U16 == 0..65535

U32(n) == <<n \div 65536, n % 65536>>

RECURSIVE BitAnd(_, _)
BitAnd(x, y) ==
    IF x = 0 \/ y = 0 THEN 0
    ELSE (x % 2) * (y % 2) + 2 * BitAnd(x \div 2, y \div 2)

Shr(x, k) == x \div (2 ^ k)

RECURSIVE BitLen(_)
BitLen(n) == IF n = 0 THEN 0 ELSE 1 + BitLen(n \div 2)

u16_to_be_bytes(v) == <<v \div 256, v % 256>>

u16_from_be_bytes(buf) == buf[1] * 256 + buf[2]

u32_to_be_bytes(v) == <<v[1] \div 256, v[1] % 256, v[2] \div 256, v[2] % 256>>

(***************************************************************************)
(* IEEE-754 binary32 arithmetic on non-negative values.  An f32 is a pair  *)
(* <<m, e>> with 0 <= m < 2^24, standing for m * 2^e.  Every operation     *)
(* rounds to nearest, ties to even, as the hardware does.                  *)
(***************************************************************************)
RECURSIVE f32_odd(_)
f32_odd(a) ==
    IF a[1] = 0 THEN <<0, 0>>
    ELSE IF a[1] % 2 = 0 THEN f32_odd(<<a[1] \div 2, a[2] + 1>>)
    ELSE a

\* n * 2^e for an integer n < 2^31, rounded to 24 significant bits
f32_round(n, e) ==
    LET s == BitLen(n) - 24 IN
    IF s <= 0 THEN <<n, e>>
    ELSE LET q    == n \div (2 ^ s)
             r    == n % (2 ^ s)
             half == 2 ^ (s - 1)
             m    == IF r > half \/ (r = half /\ q % 2 = 1) THEN q + 1 ELSE q
         IN  IF m = 2 ^ 24 THEN <<2 ^ 23, e + s + 1>> ELSE <<m, e + s>>

\* `x as f32` for a u32 x
u32_as_f32(x) ==
    IF x[1] < 256 THEN <<x[1] * 65536 + x[2], 0>>
    ELSE LET s    == BitLen(x[1]) - 8
             q    == x[1] * (2 ^ (16 - s)) + (x[2] \div (2 ^ s))
             r    == x[2] % (2 ^ s)
             half == 2 ^ (s - 1)
             m    == IF r > half \/ (r = half /\ q % 2 = 1) THEN q + 1 ELSE q
         IN  IF m = 2 ^ 24 THEN <<2 ^ 23, s + 1>> ELSE <<m, s>>

\* a * b; the odd parts of the operands used here multiply to less than 2^31
f32_mul(a, b) ==
    LET x == f32_odd(a)
        y == f32_odd(b)
    IN  f32_round(x[1] * y[1], x[2] + y[2])

RECURSIVE f32_scale(_, _, _)
f32_scale(n, d, k) ==
    IF n >= (2 ^ 23) * d THEN <<n, k>> ELSE f32_scale(2 * n, d, k + 1)

\* a / b for b > 0; the dividend is scaled until the quotient has 24 bits
f32_div(a, b) ==
    LET y == f32_odd(b) IN
    IF a[1] = 0 THEN <<0, 0>>
    ELSE LET sc == f32_scale(a[1], y[1], 0)
             q  == sc[1] \div y[1]
             r  == sc[1] % y[1]
             m  == IF 2 * r > y[1] \/ (2 * r = y[1] /\ q % 2 = 1) THEN q + 1 ELSE q
             e  == a[2] - y[2] - sc[2]
         IN  IF m = 2 ^ 24 THEN <<2 ^ 23, e + 1>> ELSE <<m, e>>

\* `a as u32`: truncates toward zero and saturates at u32::MAX
f32_as_u32(a) ==
    IF a[1] = 0 THEN <<0, 0>>
    ELSE IF a[2] < 0 THEN U32(a[1] \div (2 ^ (0 - a[2])))
    ELSE IF BitLen(a[1]) + a[2] > 32 THEN <<65535, 65535>>
    ELSE IF a[2] = 0 THEN U32(a[1])
    ELSE LET h == a[1] * (2 ^ (a[2] - 1)) IN <<h \div 32768, (h % 32768) * 2>>

(***************************************************************************)
(* Register map and default address.                                       *)
(***************************************************************************)
VL53L4CD_SYSTEM_START == 135

VL53L4CD_RESULT_RANGE_STATUS == 137

VL53L4CD_RESULT_FINAL_CROSSTALK_CORRECTED_RANGE_MM_SD0 == 150

VL53L4CD_SYSTEM_INTERRUPT_CLEAR == 134

VL53L4CD_GPIO_HV_MUX_CTRL == 48

VL53L4CD_GPIO_TIO_HV_STATUS == 49

VL53L4CD_RANGE_CONFIG_A == 94

VL53L4CD_RANGE_CONFIG_B == 97

VL53L4CD_INTERMEASUREMENT_MS == 108

DISTANCE == 41

(***************************************************************************)
(* Bus transactions of embedded_hal::i2c::I2c.  `inp` is what the device   *)
(* put on the wire for a read.                                             *)
(***************************************************************************)
\* variant of i2c_write that puts the general-call address on the wire
i2c_write_general_call(a, data) == [kind |-> "write", addr |-> 0, out |-> data, inp |-> <<>>]

i2c_write(a, data) == [kind |-> "write", addr |-> a, out |-> data, inp |-> <<>>]

i2c_read(a, data) == [kind |-> "read", addr |-> a, out |-> <<>>, inp |-> data]

i2c_write_read(a, wr, rd) == [kind |-> "write_read", addr |-> a, out |-> wr, inp |-> rd]

(***************************************************************************)
(* Private register helpers.  Each yields the transactions it issues, in   *)
(* order; the value a read helper returns is decoded by its caller from    *)
(* the bytes the device supplies.                                          *)
(***************************************************************************)
write_register(a, reg, value) ==
    LET reg_bytes == u16_to_be_bytes(reg)
        data      == <<reg_bytes[1], reg_bytes[2], value>>
    IN  <<i2c_write(a, data)>>

write_register_16(a, reg, value) ==
    LET reg_bytes == u16_to_be_bytes(reg)
        val_bytes == u16_to_be_bytes(value)
        data      == <<reg_bytes[1], reg_bytes[2], val_bytes[1], val_bytes[2]>>
    IN  <<i2c_write(a, data)>>

write_register_32(a, reg, value) ==
    LET reg_bytes == u16_to_be_bytes(reg)
        val_bytes == u32_to_be_bytes(value)
        data      == <<reg_bytes[1], reg_bytes[2],
                       val_bytes[1], val_bytes[2], val_bytes[3], val_bytes[4]>>
    IN  <<i2c_write(a, data)>>

read_register(a, reg, buf) ==
    LET reg_bytes == u16_to_be_bytes(reg)
    IN  <<i2c_write(a, reg_bytes), i2c_read(a, buf)>>

read_register_16(a, reg, buf) ==
    LET reg_bytes == u16_to_be_bytes(reg)
    IN  <<i2c_write(a, reg_bytes), i2c_read(a, buf)>>

(***************************************************************************)
(* Public methods.  A method is [txns, val]: the transactions it issues    *)
(* when none fails, and the value it then returns.                         *)
(***************************************************************************)
Unit == "unit"

Some(v) == [some |-> TRUE, v |-> v]

None == [some |-> FALSE, v |-> 0]

\* `budget_ms as u32 * 1000` panics in a debug build when it leaves u32
timing_budget_us_overflows(budget_ms) ==
    LET timing_budget_us == budget_ms * 1000
    IN  timing_budget_us \div 65536 >= 65536

\* variant of range_config with the 100 ms and 200 ms entries exchanged
range_config_swapped(budget_ms) ==
    CASE budget_ms = 10  -> <<1, 1>>
      [] budget_ms = 15  -> <<2, 2>>
      [] budget_ms = 20  -> <<5, 5>>
      [] budget_ms = 33  -> <<11, 11>>
      [] budget_ms = 50  -> <<19, 19>>
      [] budget_ms = 100 -> <<85, 85>>
      [] budget_ms = 200 -> <<41, 41>>
      [] budget_ms = 500 -> <<214, 214>>
      [] OTHER           -> <<5, 5>>

range_config(budget_ms) ==
    CASE budget_ms = 10  -> <<1, 1>>
      [] budget_ms = 15  -> <<2, 2>>
      [] budget_ms = 20  -> <<5, 5>>
      [] budget_ms = 33  -> <<11, 11>>
      [] budget_ms = 50  -> <<19, 19>>
      [] budget_ms = 100 -> <<41, 41>>
      [] budget_ms = 200 -> <<85, 85>>
      [] budget_ms = 500 -> <<214, 214>>
      [] OTHER           -> <<5, 5>>

set_timing_budget(a, budget_ms) ==
    LET cfg == range_config(budget_ms)
    IN  [txns |-> write_register_16(a, VL53L4CD_RANGE_CONFIG_A, cfg[1])
                  \o write_register_16(a, VL53L4CD_RANGE_CONFIG_B, cfg[2]),
         val  |-> Unit]

clock_pll(period_ms) ==
    LET osc_freq == U32(64000)
    IN  f32_as_u32(f32_div(f32_mul(u32_as_f32(period_ms), u32_as_f32(osc_freq)),
                           <<1000, 0>>))

set_inter_measurement(a, period_ms) ==
    [txns |-> write_register_32(a, VL53L4CD_INTERMEASUREMENT_MS, clock_pll(period_ms)),
     val  |-> Unit]

\* variant of init with a 50 ms inter-measurement period
init_50ms(a) ==
    [txns |-> set_timing_budget(a, 20).txns \o set_inter_measurement(a, U32(50)).txns,
     val  |-> Unit]

init(a) ==
    [txns |-> set_timing_budget(a, 20).txns \o set_inter_measurement(a, U32(0)).txns,
     val  |-> Unit]

\* variant of start_ranging that writes the start value to the interrupt-clear register
start_ranging_wrong_register(a) ==
    [txns |-> write_register(a, VL53L4CD_SYSTEM_INTERRUPT_CLEAR, 64), val |-> Unit]

start_ranging(a) ==
    [txns |-> write_register(a, VL53L4CD_SYSTEM_START, 64), val |-> Unit]

stop_ranging(a) ==
    [txns |-> write_register(a, VL53L4CD_SYSTEM_START, 0), val |-> Unit]

\* variant of data_ready that takes the polarity from bit 3
data_ready_bit3(a, mux, tio) ==
    LET polarity == Shr(BitAnd(mux, 8), 3)
        status   == BitAnd(tio, 1)
    IN  [txns |-> read_register(a, VL53L4CD_GPIO_HV_MUX_CTRL, <<mux>>)
                  \o read_register(a, VL53L4CD_GPIO_TIO_HV_STATUS, <<tio>>),
         val  |-> status # polarity]

data_ready(a, mux, tio) ==
    LET polarity == Shr(BitAnd(mux, 16), 4)
        status   == BitAnd(tio, 1)
    IN  [txns |-> read_register(a, VL53L4CD_GPIO_HV_MUX_CTRL, <<mux>>)
                  \o read_register(a, VL53L4CD_GPIO_TIO_HV_STATUS, <<tio>>),
         val  |-> status # polarity]

clear_interrupt(a) ==
    [txns |-> write_register(a, VL53L4CD_SYSTEM_INTERRUPT_CLEAR, 1), val |-> Unit]

\* variant of read_distance that clears the interrupt only for a valid range
read_distance_clear_if_valid(a, st, buf) ==
    LET range_status == BitAnd(st, 31)
        distance     == u16_from_be_bytes(buf)
        valid        == range_status = 0 \/ range_status = 4
    IN  [txns |-> read_register(a, VL53L4CD_RESULT_RANGE_STATUS, <<st>>)
                  \o read_register_16(a,
                        VL53L4CD_RESULT_FINAL_CROSSTALK_CORRECTED_RANGE_MM_SD0, buf)
                  \o (IF valid THEN clear_interrupt(a).txns ELSE <<>>),
         val  |-> IF valid THEN Some(distance) ELSE None]

\* variant of read_distance that reads the range before the status
read_distance_range_first(a, st, buf) ==
    LET range_status == BitAnd(st, 31)
        distance     == u16_from_be_bytes(buf)
    IN  [txns |-> read_register_16(a,
                        VL53L4CD_RESULT_FINAL_CROSSTALK_CORRECTED_RANGE_MM_SD0, buf)
                  \o read_register(a, VL53L4CD_RESULT_RANGE_STATUS, <<st>>)
                  \o clear_interrupt(a).txns,
         val  |-> IF range_status = 0 \/ range_status = 4
                  THEN Some(distance) ELSE None]

\* variant of read_distance that tests the whole status byte, unmasked
read_distance_unmasked(a, st, buf) ==
    LET range_status == st
        distance     == u16_from_be_bytes(buf)
    IN  [txns |-> read_register(a, VL53L4CD_RESULT_RANGE_STATUS, <<st>>)
                  \o read_register_16(a,
                        VL53L4CD_RESULT_FINAL_CROSSTALK_CORRECTED_RANGE_MM_SD0, buf)
                  \o clear_interrupt(a).txns,
         val  |-> IF range_status = 0 \/ range_status = 4
                  THEN Some(distance) ELSE None]

\* variant of read_distance that returns every reading
read_distance_unfiltered(a, st, buf) ==
    LET distance == u16_from_be_bytes(buf)
    IN  [txns |-> read_register(a, VL53L4CD_RESULT_RANGE_STATUS, <<st>>)
                  \o read_register_16(a,
                        VL53L4CD_RESULT_FINAL_CROSSTALK_CORRECTED_RANGE_MM_SD0, buf)
                  \o clear_interrupt(a).txns,
         val  |-> Some(distance)]

read_distance(a, st, buf) ==
    LET status       == st
        range_status == BitAnd(status, 31)
        distance     == u16_from_be_bytes(buf)
    IN  [txns |-> read_register(a, VL53L4CD_RESULT_RANGE_STATUS, <<st>>)
                  \o read_register_16(a,
                        VL53L4CD_RESULT_FINAL_CROSSTALK_CORRECTED_RANGE_MM_SD0, buf)
                  \o clear_interrupt(a).txns,
         val  |-> IF range_status = 0 \/ range_status = 4
                  THEN Some(distance) ELSE None]

(***************************************************************************)
(* I2cDevice (src/src/i2c_device.rs): the register helper the other        *)
(* drivers are built on.  `buf` is what the device supplies for a read.    *)
(***************************************************************************)
write(a, data) == [txns |-> <<i2c_write(a, data)>>, val |-> Unit]

read(a, buf) == [txns |-> <<i2c_read(a, buf)>>, val |-> buf]

write_read(a, wr, buf) == [txns |-> <<i2c_write_read(a, wr, buf)>>, val |-> buf]

write_reg(a, reg, value) == write(a, <<reg, value>>)

read_reg(a, reg, buf) ==
    [txns |-> write_read(a, <<reg>>, buf).txns, val |-> buf[1]]

read_regs(a, reg, buf) == write_read(a, <<reg>>, buf)

write_reg16_u8(a, reg, value) ==
    LET reg_bytes == u16_to_be_bytes(reg)
    IN  write(a, <<reg_bytes[1], reg_bytes[2], value>>)

\* variant of write_reg16_u16 that sends the value low byte first
write_reg16_u16_le(a, reg, value) ==
    LET reg_bytes == u16_to_be_bytes(reg)
        val_bytes == u16_to_be_bytes(value)
    IN  write(a, <<reg_bytes[1], reg_bytes[2], val_bytes[2], val_bytes[1]>>)

write_reg16_u16(a, reg, value) ==
    LET reg_bytes == u16_to_be_bytes(reg)
        val_bytes == u16_to_be_bytes(value)
    IN  write(a, <<reg_bytes[1], reg_bytes[2], val_bytes[1], val_bytes[2]>>)

write_reg16_u32(a, reg, value) ==
    LET reg_bytes == u16_to_be_bytes(reg)
        val_bytes == u32_to_be_bytes(value)
    IN  write(a, <<reg_bytes[1], reg_bytes[2],
                   val_bytes[1], val_bytes[2], val_bytes[3], val_bytes[4]>>)

read_reg16_u8(a, reg, buf) ==
    LET reg_bytes == u16_to_be_bytes(reg)
    IN  [txns |-> write_read(a, reg_bytes, buf).txns, val |-> buf[1]]

\* variant of read_reg16_u16 that decodes the value low byte first
read_reg16_u16_le(a, reg, buf) ==
    LET reg_bytes == u16_to_be_bytes(reg)
    IN  [txns |-> write_read(a, reg_bytes, buf).txns, val |-> buf[2] * 256 + buf[1]]

read_reg16_u16(a, reg, buf) ==
    LET reg_bytes == u16_to_be_bytes(reg)
    IN  [txns |-> write_read(a, reg_bytes, buf).txns, val |-> u16_from_be_bytes(buf)]

(***************************************************************************)
(* Knob (src/src/knob.rs).  The driver object is [value, pressed, range];  *)
(* an i16 is an integer in -32768..32767.  A method is [txns, ok, val,     *)
(* self]: the transactions it issues when none fails, whether it then      *)
(* returns Ok, the value or error it returns, and the object it leaves.    *)
(* Every assignment to a field follows the last `?` of its method, so a    *)
(* method that fails on the bus leaves the object as it found it.          *)
(***************************************************************************)
KNOB == <<58, 59>>

I16 == -32768..32767

i16_from_le_bytes(b) ==
    LET u == b[1] + 256 * b[2]
    IN  IF u >= 32768 THEN u - 65536 ELSE u

i16_to_le_bytes(v) ==
    LET u == v % 65536
    IN  <<u % 256, u \div 256>>

Range(min, max) == [some |-> TRUE, v |-> <<min, max>>]

NoRange == [some |-> FALSE, v |-> <<0, 0>>]

\* variant of read_data that does not skip the pinstrap byte
read_data_from_byte0(a, buf) ==
    [txns |-> read(a, buf).txns,
     val  |-> <<i16_from_le_bytes(<<buf[1], buf[2]>>), buf[3] # 0>>]

read_data(a, buf) ==
    LET raw_value == i16_from_le_bytes(<<buf[2], buf[3]>>)
        pressed   == buf[4] # 0
    IN  [txns |-> read(a, buf).txns, val |-> <<raw_value, pressed>>]

\* variant of set_value_internal that sends the value high byte first
set_value_internal_be(a, value) ==
    LET bytes == i16_to_le_bytes(value)
    IN  write(a, <<bytes[2], bytes[1], 0, 0>>).txns

set_value_internal(a, value) ==
    LET bytes == i16_to_le_bytes(value)
        data  == <<bytes[1], bytes[2], 0, 0>>
    IN  write(a, data).txns

update(a, s, buf) ==
    LET rd          == read_data(a, buf)
        raw         == rd.val[1]
        new_pressed == rd.val[2]
        min         == s.range.v[1]
        max         == s.range.v[2]
        below       == s.range.some /\ raw < min
        above       == s.range.some /\ ~(raw < min) /\ raw > max
        new_value   == IF below THEN min ELSE IF above THEN max ELSE raw
    IN  [txns |-> rd.txns \o (IF below THEN set_value_internal(a, min)
                              ELSE IF above THEN set_value_internal(a, max)
                              ELSE <<>>),
         ok   |-> TRUE,
         val  |-> (new_value # s.value \/ new_pressed # s.pressed),
         self |-> [s EXCEPT !.value = new_value, !.pressed = new_pressed]]

set_value(a, s, value) ==
    IF s.range.some /\ (value < s.range.v[1] \/ value > s.range.v[2])
    THEN [txns |-> <<>>, ok |-> FALSE, val |-> "OutOfRange", self |-> s]
    ELSE [txns |-> set_value_internal(a, value), ok |-> TRUE, val |-> Unit,
          self |-> [s EXCEPT !.value = value]]

reset(a, s) == set_value(a, s, 0)

\* variant of set_range that keeps the current value
set_range_unclamped(s, min, max) ==
    [txns |-> <<>>, ok |-> TRUE, val |-> Unit, self |-> [s EXCEPT !.range = Range(min, max)]]

set_range(s, min, max) ==
    [txns |-> <<>>, ok |-> TRUE, val |-> Unit,
     self |-> [s EXCEPT !.range = Range(min, max),
                        !.value = IF s.value < min THEN min
                                  ELSE IF s.value > max THEN max
                                  ELSE s.value]]

Knob_clear_range(s) ==
    [txns |-> <<>>, ok |-> TRUE, val |-> Unit, self |-> [s EXCEPT !.range = NoRange]]

\* i16 arithmetic that wraps around at the boundary of the type
wrapping_i16(x) == ((x + 32768) % 65536) - 32768

rotation_delta(s, previous_value) ==
    LET diff == wrapping_i16(s.value - previous_value)
    IN  [txns |-> <<>>, ok |-> TRUE,
         val  |-> IF ~(-16384 <= diff /\ diff <= 16384)
                  THEN wrapping_i16(diff + (-32768))
                  ELSE diff,
         self |-> s]

(***************************************************************************)
(* Pixels (src/src/pixels.rs) and Color (src/src/color.rs).  The driver    *)
(* object is [data]: the 32-byte LED buffer, LED i in bytes 4i+1..4i+4 of  *)
(* the sequence.  Only show puts the buffer on the bus.                    *)
(***************************************************************************)
NUM_LEDS == 8

PIXELS == 54

BitOr(x, y) == x + y - BitAnd(x, y)

u32_to_le_bytes(v) == <<v[2] % 256, v[2] \div 256, v[1] % 256, v[1] \div 256>>

Color(r, g, b) == [r |-> r, g |-> g, b |-> b]

BLACK == Color(0, 0, 0)

\* variant of to_apa102_data with red and blue exchanged
to_apa102_data_bgr(c) == <<c.b * 256 + c.g, c.r * 256>>

to_apa102_data(c) == <<c.r * 256 + c.g, c.b * 256>>

map_brightness(brightness) ==
    LET clamped == IF brightness > 100 THEN 100 ELSE brightness
    IN  ((clamped * 31) \div 100) % 256

\* self.data[byte_index..byte_index + 4].copy_from_slice(&bytes)
copy_from_slice(data, byte_index, bytes) ==
    [k \in DOMAIN data |->
        IF byte_index < k /\ k <= byte_index + 4 THEN bytes[k - byte_index] ELSE data[k]]

\* variant of set_color that accepts index = NUM_LEDS
set_color_index_inclusive(s, index, color, brightness) ==
    IF index > NUM_LEDS
    THEN [txns |-> <<>>, ok |-> FALSE, val |-> "OutOfRange", self |-> s]
    ELSE [txns |-> <<>>, ok |-> TRUE, val |-> Unit, self |-> s]

set_color(s, index, color, brightness) ==
    IF index >= NUM_LEDS
    THEN [txns |-> <<>>, ok |-> FALSE, val |-> "OutOfRange", self |-> s]
    ELSE LET byte_index        == index * 4
             mapped_brightness == map_brightness(brightness)
             apa               == to_apa102_data(color)
             color_data        == <<apa[1],
                                    (apa[2] \div 256) * 256
                                      + BitOr(BitOr(apa[2] % 256, mapped_brightness), 224)>>
             bytes             == u32_to_le_bytes(color_data)
         IN  [txns |-> <<>>, ok |-> TRUE, val |-> Unit,
              self |-> [s EXCEPT !.data = copy_from_slice(s.data, byte_index, bytes)]]

set_rgb(s, index, r, g, b, brightness) == set_color(s, index, Color(r, g, b), brightness)

\* variant of set_brightness that stores the mapped brightness alone
set_brightness_without_flag(s, index, brightness) ==
    IF index >= NUM_LEDS
    THEN [txns |-> <<>>, ok |-> FALSE, val |-> "OutOfRange", self |-> s]
    ELSE [txns |-> <<>>, ok |-> TRUE, val |-> Unit,
          self |-> [s EXCEPT !.data[index * 4 + 1] = map_brightness(brightness)]]

set_brightness(s, index, brightness) ==
    IF index >= NUM_LEDS
    THEN [txns |-> <<>>, ok |-> FALSE, val |-> "OutOfRange", self |-> s]
    ELSE LET byte_index        == index * 4
             mapped_brightness == map_brightness(brightness)
         IN  [txns |-> <<>>, ok |-> TRUE, val |-> Unit,
              self |-> [s EXCEPT !.data[byte_index + 1] = BitOr(mapped_brightness, 224)]]

\* for i in from..=end { let _ = self.set_color(i, color, brightness); }
RECURSIVE set_color_each(_, _, _, _, _)
set_color_each(s, from, end, color, brightness) ==
    IF from > end THEN s
    ELSE set_color_each(set_color(s, from, color, brightness).self,
                        from + 1, end, color, brightness)

\* for i in from..=end { let _ = self.set_brightness(i, brightness); }
RECURSIVE set_brightness_each(_, _, _, _)
set_brightness_each(s, from, end, brightness) ==
    IF from > end THEN s
    ELSE set_brightness_each(set_brightness(s, from, brightness).self,
                             from + 1, end, brightness)

set_all_color(s, color, brightness) ==
    [txns |-> <<>>, ok |-> TRUE, val |-> Unit,
     self |-> set_color_each(s, 0, NUM_LEDS - 1, color, brightness)]

set_all_rgb(s, r, g, b, brightness) == set_all_color(s, Color(r, g, b), brightness)

set_range_color(s, from, to, color, brightness) ==
    LET end == IF to >= NUM_LEDS THEN NUM_LEDS - 1 ELSE to
    IN  [txns |-> <<>>, ok |-> TRUE, val |-> Unit,
         self |-> set_color_each(s, from, end, color, brightness)]

set_all_brightness(s, brightness) ==
    [txns |-> <<>>, ok |-> TRUE, val |-> Unit,
     self |-> set_brightness_each(s, 0, NUM_LEDS - 1, brightness)]

clear(s, index) == set_color(s, index, BLACK, 0)

Pixels_clear_range(s, from, to) ==
    LET end == IF to >= NUM_LEDS THEN NUM_LEDS - 1 ELSE to
    IN  [txns |-> <<>>, ok |-> TRUE, val |-> Unit,
         self |-> set_color_each(s, from, end, BLACK, 0)]

clear_all(s) ==
    [txns |-> <<>>, ok |-> TRUE, val |-> Unit,
     self |-> set_color_each(s, 0, NUM_LEDS - 1, BLACK, 0)]

show(a, s) == [txns |-> write(a, s.data).txns, ok |-> TRUE, val |-> Unit, self |-> s]

set_color_show(a, s, index, color, brightness) ==
    LET set == set_color(s, index, color, brightness)
    IN  IF set.ok THEN show(a, set.self) ELSE set

Pixels_new_with_address(a) ==
    LET pixels == [data |-> [k \in 1..(NUM_LEDS * 4) |-> 224]]
    IN  clear_all(pixels)

(***************************************************************************)
(* Joystick (src/src/joystick.rs).  The driver object is [x, y,            *)
(* button_pressed, deadzone]; an i8 is an integer in -128..127.            *)
(***************************************************************************)
JOYSTICK == 44

DEFAULT_DEADZONE == 10

\* `as i8`
as_i8(x) == ((x + 128) % 256) - 128

abs(x) == IF x < 0 THEN -x ELSE x

\* variant of normalize_coordinate whose deadzone includes its boundary
normalize_coordinate_inclusive(s, raw) ==
    LET centered == raw - 128
    IN  IF abs(centered) <= s.deadzone THEN 0 ELSE as_i8(centered)

normalize_coordinate(s, raw) ==
    LET centered == raw - 128
    IN  IF abs(centered) < s.deadzone THEN 0 ELSE as_i8(centered)

Joystick_update(a, s, buf) ==
    LET raw_x == buf[2]
        raw_y == buf[3]
        x     == normalize_coordinate(s, raw_x)
        y     == normalize_coordinate(s, raw_y)
        b     == buf[4] # 0
    IN  [txns |-> read(a, buf).txns,
         ok   |-> TRUE,
         val  |-> (x # s.x \/ y # s.y \/ b # s.button_pressed),
         self |-> [s EXCEPT !.x = x, !.y = y, !.button_pressed = b]]

set_deadzone(s, deadzone) ==
    [txns |-> <<>>, ok |-> TRUE, val |-> Unit, self |-> [s EXCEPT !.deadzone = deadzone]]

is_centered(s) ==
    [txns |-> <<>>, ok |-> TRUE, val |-> (s.x = 0 /\ s.y = 0), self |-> s]

(***************************************************************************)
(* Buttons (src/src/buttons.rs).  The driver object is [led_a, led_b,      *)
(* led_c, current_state]; a ButtonLed is its boolean, a ButtonState is     *)
(* [a, b, c].                                                              *)
(***************************************************************************)
BUTTONS == 62

ButtonState(a, b, c) == [a |-> a, b |-> b, c |-> c]

\* `bool as u8`
bool_as_u8(v) == IF v THEN 1 ELSE 0

\* variant of Buttons_read that does not skip the pinstrap byte
Buttons_read_from_byte0(a, s, buf) ==
    LET st == ButtonState(buf[1] # 0, buf[2] # 0, buf[3] # 0)
    IN  [txns |-> read(a, buf).txns, ok |-> TRUE, val |-> st,
         self |-> [s EXCEPT !.current_state = st]]

Buttons_read(a, s, buf) ==
    LET st == ButtonState(buf[2] # 0, buf[3] # 0, buf[4] # 0)
    IN  [txns |-> read(a, buf).txns, ok |-> TRUE, val |-> st,
         self |-> [s EXCEPT !.current_state = st]]

state(s) == [txns |-> <<>>, ok |-> TRUE, val |-> s.current_state, self |-> s]

button_a_pressed(s) == [txns |-> <<>>, ok |-> TRUE, val |-> s.current_state.a, self |-> s]

button_b_pressed(s) == [txns |-> <<>>, ok |-> TRUE, val |-> s.current_state.b, self |-> s]

button_c_pressed(s) == [txns |-> <<>>, ok |-> TRUE, val |-> s.current_state.c, self |-> s]

update_leds(a, s) ==
    LET data == <<bool_as_u8(s.led_a), bool_as_u8(s.led_b), bool_as_u8(s.led_c)>>
    IN  [txns |-> write(a, data).txns, ok |-> TRUE, val |-> Unit, self |-> s]

\* the LED fields are assigned before the write, whether or not it succeeds
set_leds(a, s, la, lb, lc) ==
    update_leds(a, [s EXCEPT !.led_a = la, !.led_b = lb, !.led_c = lc])

all_leds_off(a, s) == set_leds(a, s, FALSE, FALSE, FALSE)

all_leds_on(a, s) == set_leds(a, s, TRUE, TRUE, TRUE)

(***************************************************************************)
(* LatchRelay (src/src/latch_relay.rs).  The driver holds the bus and the  *)
(* address only.  An Option<bool> is [some, v].                            *)
(***************************************************************************)
LATCH_RELAY == 2

NoneBool == [some |-> FALSE, v |-> FALSE]

LatchRelay_on(a) == [txns |-> <<i2c_write(a, <<1, 0, 0>>)>>, val |-> Unit]

LatchRelay_off(a) == [txns |-> <<i2c_write(a, <<0, 0, 0>>)>>, val |-> Unit]

LatchRelay_set(a, on) == IF on THEN LatchRelay_on(a) ELSE LatchRelay_off(a)

\* variant of is_on that takes the status from bytes 0 and 1
is_on_from_byte0(a, buf) ==
    [txns |-> <<i2c_read(a, buf)>>,
     val  |-> IF buf[1] = 0 /\ buf[2] = 0 THEN NoneBool
              ELSE IF buf[1] = 1 THEN Some(FALSE)
              ELSE Some(TRUE)]

is_on(a, buf) ==
    LET status0 == buf[2]
        status1 == buf[3]
    IN  [txns |-> <<i2c_read(a, buf)>>,
         val  |-> IF status0 = 0 /\ status1 = 0 THEN NoneBool
                  ELSE IF status0 = 1 THEN Some(FALSE)
                  ELSE Some(TRUE)]

\* variant of toggle that switches off on an unknown state
toggle_unknown_as_on(a, buf) ==
    [txns |-> is_on(a, buf).txns \o
              (IF is_on(a, buf).val # Some(FALSE)
               THEN LatchRelay_off(a).txns ELSE LatchRelay_on(a).txns),
     val  |-> Unit]

toggle(a, buf) ==
    [txns |-> is_on(a, buf).txns \o
              (IF is_on(a, buf).val = Some(TRUE)
               THEN LatchRelay_off(a).txns ELSE LatchRelay_on(a).txns),
     val  |-> Unit]

(***************************************************************************)
(* Movement (src/src/movement.rs): construction and data_ready.  The two   *)
(* sensitivity fields hold the same constants from construction on and     *)
(* are not part of the state.                                              *)
(***************************************************************************)
MOVEMENT == <<106, 107>>

LSM6DSOX_CTRL1_XL == 16

LSM6DSOX_CTRL2_G == 17

LSM6DSOX_CTRL3_C == 18

LSM6DSOX_STATUS_REG == 30

LSM6DSOX_WHO_AM_I == 15

LSM6DSOX_WHO_AM_I_VALUE == 108

Movement_init(a) ==
    write_reg(a, LSM6DSOX_CTRL3_C, 1).txns
      \o write_reg(a, LSM6DSOX_CTRL1_XL, 64).txns
      \o write_reg(a, LSM6DSOX_CTRL2_G, 64).txns
      \o write_reg(a, LSM6DSOX_CTRL3_C, 68).txns

\* variant of Movement_new_with_address without the identity check
Movement_new_unverified(a, buf) ==
    [txns |-> read_reg(a, LSM6DSOX_WHO_AM_I, buf).txns \o Movement_init(a),
     ok |-> TRUE, val |-> Unit]

Movement_new_with_address(a, buf) ==
    LET who_am_i == read_reg(a, LSM6DSOX_WHO_AM_I, buf)
    IN  IF who_am_i.val # LSM6DSOX_WHO_AM_I_VALUE
        THEN [txns |-> who_am_i.txns, ok |-> FALSE, val |-> "DeviceNotFound"]
        ELSE [txns |-> who_am_i.txns \o Movement_init(a), ok |-> TRUE, val |-> Unit]

Movement_data_ready(a, buf) ==
    LET status == read_reg(a, LSM6DSOX_STATUS_REG, buf)
    IN  [txns |-> status.txns, val |-> (BitAnd(status.val, 3) # 0)]

(***************************************************************************)
(* Vibro (src/src/vibro.rs).  self = [frequency], a u32 kept as            *)
(* <<high 16 bits, low 16 bits>>.                                          *)
(***************************************************************************)
VIBRO == 56

DEFAULT_FREQUENCY == <<0, 1000>>

PowerLevel == {"Stop", "Gentle", "Moderate", "Medium", "Intense", "Powerful", "Maximum"}

PowerLevel_value(level) ==
    CASE level = "Stop" -> 0
      [] level = "Gentle" -> 25
      [] level = "Moderate" -> 35
      [] level = "Medium" -> 45
      [] level = "Intense" -> 55
      [] level = "Powerful" -> 65
      [] level = "Maximum" -> 75

\* `x as u32` for a u8 or u16 x
as_u32(x) == <<0, x>>

\* variant of on_with_power that always sends the default frequency
on_with_power_default_frequency(a, s, duration_ms, power) ==
    write(a, u32_to_le_bytes(DEFAULT_FREQUENCY)
               \o u32_to_le_bytes(as_u32(duration_ms))
               \o u32_to_le_bytes(as_u32(power)))

on_with_power(a, s, duration_ms, power) ==
    LET freq_bytes == u32_to_le_bytes(s.frequency)
        duration_bytes == u32_to_le_bytes(as_u32(duration_ms))
        power_bytes == u32_to_le_bytes(as_u32(power))
    IN  write(a, freq_bytes \o duration_bytes \o power_bytes)

Vibro_on(a, s, duration_ms, power) ==
    on_with_power(a, s, duration_ms, PowerLevel_value(power))

on_continuous(a, s, power) == Vibro_on(a, s, 65535, power)

Vibro_off(a) == write(a, [i \in 1..12 |-> 0])

Vibro_stop(a) == Vibro_off(a)

pulse(a, s, on_ms, power) == Vibro_on(a, s, on_ms, power)

set_frequency(s, frequency) == [s EXCEPT !.frequency = frequency]

Vibro_new_with_address(a) ==
    [txns |-> Vibro_off(a).txns, ok |-> TRUE, val |-> Unit,
     self |-> [frequency |-> DEFAULT_FREQUENCY]]

(***************************************************************************)
(* Buzzer (src/src/buzzer.rs): it holds the bus itself, not an I2cDevice.  *)
(***************************************************************************)
BUZZER == 30

\* variant of tone with the duration before the frequency
tone_duration_first(a, frequency, duration_ms) ==
    [txns |-> <<i2c_write(a, u32_to_le_bytes(as_u32(duration_ms))
                               \o u32_to_le_bytes(as_u32(frequency)))>>,
     val |-> Unit]

tone(a, frequency, duration_ms) ==
    LET freq_bytes == u32_to_le_bytes(as_u32(frequency))
        duration_bytes == u32_to_le_bytes(as_u32(duration_ms))
    IN  [txns |-> <<i2c_write(a, freq_bytes \o duration_bytes)>>, val |-> Unit]

tone_continuous(a, frequency) == tone(a, frequency, 65535)

no_tone(a) == [txns |-> <<i2c_write(a, [i \in 1..8 |-> 0])>>, val |-> Unit]

Buzzer_stop(a) == no_tone(a)

Buzzer_new_with_address(a) == no_tone(a)

(***************************************************************************)
(* Running a method on the bus.  f = 0: every transaction succeeds;       *)
(* f = k: the k-th transaction returns an error, the method returns it     *)
(* and issues nothing after it.  A failed read delivers no bytes.          *)
(***************************************************************************)
Issued(txn, ok) ==
    [kind |-> txn.kind, addr |-> txn.addr, out |-> txn.out,
     inp  |-> IF ok THEN txn.inp ELSE <<>>, ok |-> ok]

\* variant of Run that goes on after a failed transaction
Run_ignoring_errors(txns, f) ==
    [i \in 1..Len(txns) |-> Issued(txns[i], i # f)]

Run(txns, f) ==
    [i \in 1..(IF f = 0 THEN Len(txns) ELSE f) |-> Issued(txns[i], i # f)]

Returns(op, args, call, f) ==
    /\ log' = Run(call.txns, f)
    /\ result' = [op |-> op, args |-> args, ok |-> (f = 0),
                  val |-> IF f = 0 THEN call.val ELSE "I2c"]

Panics(op, args) ==
    /\ log' = <<>>
    /\ result' = [op |-> op, args |-> args, ok |-> FALSE, val |-> "panic"]

NoCall == [op |-> "none", args |-> <<>>, ok |-> TRUE, val |-> Unit]

\* a method of a driver object: as Returns, and the object it leaves
ReturnsSelf(op, args, call, f) ==
    /\ log' = Run(call.txns, f)
    /\ result' = [op |-> op, args |-> args, ok |-> (f = 0 /\ call.ok),
                  val |-> IF f = 0 THEN call.val ELSE "I2c"]
    /\ self' = IF f = 0 THEN call.self ELSE self

(***************************************************************************)
(* The device.  A write transaction [reg_hi, reg_lo, b1, .., bn] that the  *)
(* device acknowledged stores b1..bn in the registers reg, reg+1, ..; only *)
(* the registers in DOMAIN device are kept.  The sensor is Ranging while   *)
(* its system-start register holds a non-zero value.                       *)
(***************************************************************************)
Stores(txn, r) ==
    /\ txn.ok
    /\ txn.kind = "write"
    /\ Len(txn.out) > 2
    /\ ((r - u16_from_be_bytes(txn.out)) % 65536) < Len(txn.out) - 2

DeviceWrite(dev, txn) ==
    [r \in DOMAIN dev |->
        IF Stores(txn, r)
        THEN txn.out[((r - u16_from_be_bytes(txn.out)) % 65536) + 3]
        ELSE dev[r]]

RECURSIVE DeviceAfter(_, _)
DeviceAfter(dev, lg) ==
    IF lg = <<>> THEN dev ELSE DeviceAfter(DeviceWrite(dev, Head(lg)), Tail(lg))

PowerOn == [r \in {VL53L4CD_SYSTEM_START} |-> 0]

\* the bytes the device can supply for a read of n registers from reg on:
\* a register it keeps supplies its content, any other register any byte
Supplied(dev, reg, n, bytes) ==
    {buf \in [1..n -> bytes \cup {dev[r] : r \in DOMAIN dev}] :
        \A i \in 1..n :
            LET r == (reg + i - 1) % 65536
            IN  r \in DOMAIN dev => buf[i] = dev[r]}

\* a register memory: the registers 65535, 0 and 1, all holding 0
Memory == [r \in {65535, 0, 1} |-> 0]

RangingState(dev) == IF dev[VL53L4CD_SYSTEM_START] = 0 THEN "Stopped" ELSE "Ranging"

(***************************************************************************)
(* Inputs.  The sampled sets hold every value the code distinguishes and   *)
(* neighbours of each boundary.                                            *)
(***************************************************************************)
Addresses == {DISTANCE, 82}

BudgetSamples == {0, 9, 10, 11, 15, 20, 21, 33, 50, 100, 200, 500, 501, 65535}

PeriodSamples ==
    {U32(0), U32(1), U32(50), U32(1000), U32(134218), U32(134219),
     U32(16777217), <<1023, 65535>>, <<1024, 0>>, <<65535, 65535>>}

GpioSamples == {0, 1, 16, 17, 239, 254}

StatusSamples == {0, 1, 4, 5, 31, 32, 228, 255}

RangeSamples == {<<0, 0>>, <<1, 244>>, <<255, 255>>}

ByteSamples == {0, 1, 255}

Reg8Samples == {0, 16, 255}

Reg16Samples == {0, 65535}

Value8Samples == {0, 171}

Value16Samples == {258, 65280}

Value32Samples == {<<258, 772>>}

DataSamples == {<<>>, <<5>>, <<0, 0, 9>>}

PixelsAddresses == {PIXELS, 55}

LedIndexSamples == {0, 7, 8, 255}

ColorSamples == {BLACK, Color(1, 2, 3)}

BrightnessSamples == {0, 100}

FromSamples == {1, 9}

ToSamples == {6, 8}

JoystickAddresses == {JOYSTICK, 45}

AxisSamples == {0, 118, 119, 128, 137, 138, 255}

\* the 4 bytes a joystick reports: pinstrap, x, y, button
JoystickReports ==
    {<<88, x, y, b>> : x \in AxisSamples, y \in {0, 119, 138}, b \in {0, 1}}
        \cup {<<0, 138, 137, 128>>}

DeadzoneSamples == {0, 10, 128, 255}

ButtonsAddresses == {BUTTONS, 63}

\* the 4 bytes the buttons report: pinstrap, a, b, c
ButtonsReports ==
    {<<124, a, b, c>> : a \in {0, 1}, b \in {0, 1}, c \in {0, 1}}
        \cup {<<0, 0, 128, 0>>, <<1, 0, 0, 255>>}

LatchRelayAddresses == {LATCH_RELAY, 3}

\* the 4 bytes a relay reports: pinstrap, status0, status1, unused
LatchRelayReports ==
    {<<p, s0, s1, u>> : p \in {0, 4}, s0 \in {0, 1, 2, 255}, s1 \in {0, 1}, u \in {0, 7}}

MovementAddresses == {MOVEMENT[1], MOVEMENT[2]}

WhoAmISamples == {0, 107, 108, 109, 255}

VibroAddresses == {VIBRO, 57}

FrequencySamples == {DEFAULT_FREQUENCY, <<0, 0>>, <<1, 2>>, <<65535, 65535>>}

DurationSamples == {0, 1, 500, 65535}

PowerSamples == {0, 50, 255}

BuzzerAddresses == {BUZZER, 31}

ToneSamples == {0, 180, 255, 256, 440, 65535}

KnobAddresses == {KNOB[1], KNOB[2]}

\* the 4 bytes a knob reports: pinstrap, encoder low, encoder high, button
KnobReports ==
    {<<p, e[1], e[2], b>> :
        p \in {0, 118},
        e \in {<<0, 128>>, <<155, 255>>, <<0, 0>>, <<100, 0>>, <<101, 0>>, <<255, 127>>},
        b \in {0, 1, 128}}

KnobValues == {-32768, -101, 0, 50, 100, 101}

KnobRanges == {<<-100, 100>>, <<50, 50>>, <<100, -100>>}

(***************************************************************************)
(* Actions: one per public method.                                         *)
(***************************************************************************)
NewWithAddress(A) ==
    /\ phase = "none"
    /\ \E a \in A :
         \E f \in 0..Len(init(a).txns) :
           /\ Returns("new", <<a>>, init(a), f)
           /\ phase' = IF f = 0 THEN "ready" ELSE "none"
           /\ address' = IF f = 0 THEN a ELSE address
    /\ device' = DeviceAfter(device, log')
    /\ UNCHANGED self

New == NewWithAddress({DISTANCE})

SetTimingBudget(B) ==
    /\ phase = "ready"
    /\ \E budget_ms \in B :
         IF timing_budget_us_overflows(budget_ms)
         THEN Panics("set_timing_budget", <<budget_ms>>)
         ELSE \E f \in 0..Len(set_timing_budget(address, budget_ms).txns) :
                Returns("set_timing_budget", <<budget_ms>>,
                        set_timing_budget(address, budget_ms), f)
    /\ device' = DeviceAfter(device, log')
    /\ UNCHANGED <<phase, address, self>>

SetInterMeasurement ==
    /\ phase = "ready"
    /\ \E period_ms \in PeriodSamples :
         \E f \in 0..Len(set_inter_measurement(address, period_ms).txns) :
           Returns("set_inter_measurement", <<period_ms>>,
                   set_inter_measurement(address, period_ms), f)
    /\ device' = DeviceAfter(device, log')
    /\ UNCHANGED <<phase, address, self>>

StartRanging ==
    /\ phase = "ready"
    /\ \E f \in 0..Len(start_ranging(address).txns) :
         Returns("start_ranging", <<>>, start_ranging(address), f)
    /\ device' = DeviceAfter(device, log')
    /\ UNCHANGED <<phase, address, self>>

StopRanging ==
    /\ phase = "ready"
    /\ \E f \in 0..Len(stop_ranging(address).txns) :
         Returns("stop_ranging", <<>>, stop_ranging(address), f)
    /\ device' = DeviceAfter(device, log')
    /\ UNCHANGED <<phase, address, self>>

DataReady(G) ==
    /\ phase = "ready"
    /\ \E mux \in G, tio \in G :
         \E f \in 0..Len(data_ready(address, mux, tio).txns) :
           Returns("data_ready", <<mux, tio>>, data_ready(address, mux, tio), f)
    /\ device' = DeviceAfter(device, log')
    /\ UNCHANGED <<phase, address, self>>

ClearInterrupt ==
    /\ phase = "ready"
    /\ \E f \in 0..Len(clear_interrupt(address).txns) :
         Returns("clear_interrupt", <<>>, clear_interrupt(address), f)
    /\ device' = DeviceAfter(device, log')
    /\ UNCHANGED <<phase, address, self>>

ReadDistance(S) ==
    /\ phase = "ready"
    /\ \E st \in S, buf \in RangeSamples :
         \E f \in 0..Len(read_distance(address, st, buf).txns) :
           Returns("read_distance", <<st, buf>>, read_distance(address, st, buf), f)
    /\ device' = DeviceAfter(device, log')
    /\ UNCHANGED <<phase, address, self>>

Release ==
    /\ phase = "ready"
    /\ phase' = "none"
    /\ log' = <<>>
    /\ result' = [op |-> "release", args |-> <<>>, ok |-> TRUE, val |-> Unit]
    /\ UNCHANGED <<address, self, device>>

(***************************************************************************)
(* Spec: any sequence of method calls on sampled inputs.                   *)
(***************************************************************************)
Init ==
    /\ phase = "none"
    /\ address = 0
    /\ log = <<>>
    /\ result = NoCall
    /\ self = <<>>
    /\ device = PowerOn

Next ==
    \/ New
    \/ NewWithAddress(Addresses)
    \/ SetTimingBudget(BudgetSamples)
    \/ SetInterMeasurement
    \/ StartRanging
    \/ StopRanging
    \/ DataReady(GpioSamples)
    \/ ClearInterrupt
    \/ ReadDistance(StatusSamples)
    \/ Release

Spec == Init /\ [][Next]_vars

(***************************************************************************)
(* SpecEveryInput: a freshly constructed driver on which one method is     *)
(* called once, with every value of its argument and of the bytes read.    *)
(***************************************************************************)
InitConstructed ==
    /\ phase = "ready"
    /\ address = DISTANCE
    /\ log = Run(init(DISTANCE).txns, 0)
    /\ result = [op |-> "new", args |-> <<DISTANCE>>, ok |-> TRUE, val |-> Unit]
    /\ self = <<>>
    /\ device = PowerOn

Fresh == result.op = "new"

NextEveryInput ==
    \/ Fresh /\ SetTimingBudget(U16)
    \/ Fresh /\ DataReady(U8)
    \/ Fresh /\ ReadDistance(U8)

SpecEveryInput == InitConstructed /\ [][NextEveryInput]_vars

(***************************************************************************)
(* read_distance_blocking.  Its loop and its recursion have no bound, so   *)
(* the call is a sequence of steps: phase is "polling" while it waits for  *)
(* data_ready() and "reading" once data_ready() returned true.  log holds  *)
(* the transactions of the latest step.  No other method can be called     *)
(* until it returns (phase "ready").  The value of the call is a pair:      *)
(* <<"pending", 0>> while it runs, <<"I2c", 0>> for Err(e), <<"Ok", d>>    *)
(* for Ok(d).                                                              *)
(***************************************************************************)
Pending == [op |-> "read_distance_blocking", args |-> <<>>, ok |-> FALSE, val |-> <<"pending", 0>>]

ReadDistanceBlocking ==
    /\ phase = "ready"
    /\ phase' = "polling"
    /\ log' = <<>>
    /\ result' = Pending
    /\ UNCHANGED <<address, self, device>>

\* one iteration of `loop { if self.data_ready()? { break; } }`
BlockingPoll ==
    /\ phase = "polling"
    /\ \E mux \in GpioSamples, tio \in GpioSamples :
         \E f \in 0..Len(data_ready(address, mux, tio).txns) :
           /\ log' = Run(data_ready(address, mux, tio).txns, f)
           /\ IF f # 0
              THEN /\ phase' = "ready"
                   /\ result' = [Pending EXCEPT !.val = <<"I2c", 0>>]
              ELSE /\ phase' = IF data_ready(address, mux, tio).val
                               THEN "reading" ELSE "polling"
                   /\ result' = Pending
    /\ device' = DeviceAfter(device, log')
    /\ UNCHANGED <<address, self>>

\* `match self.read_distance()? { Some(d) if d > 0 => Ok(d), _ => self.read_distance_blocking() }`
BlockingRead ==
    /\ phase = "reading"
    /\ \E st \in StatusSamples, buf \in RangeSamples :
         \E f \in 0..Len(read_distance(address, st, buf).txns) :
           LET r == read_distance(address, st, buf).val IN
           /\ log' = Run(read_distance(address, st, buf).txns, f)
           /\ IF f # 0
              THEN /\ phase' = "ready"
                   /\ result' = [Pending EXCEPT !.val = <<"I2c", 0>>]
              ELSE IF r.some /\ r.v > 0
              THEN /\ phase' = "ready"
                   /\ result' = [Pending EXCEPT !.ok = TRUE, !.val = <<"Ok", r.v>>]
              ELSE /\ phase' = "polling"
                   /\ result' = Pending
    /\ device' = DeviceAfter(device, log')
    /\ UNCHANGED <<address, self>>

NextBlocking ==
    \/ ReadDistanceBlocking
    \/ BlockingPoll
    \/ BlockingRead

\* a constructed driver on which read_distance_blocking has just been called
InitBlocking ==
    /\ phase = "polling"
    /\ address = DISTANCE
    /\ log = <<>>
    /\ result = Pending
    /\ self = <<>>
    /\ device = PowerOn

\* the running call always takes its next step
SpecBlocking ==
    /\ InitBlocking
    /\ [][NextBlocking]_vars
    /\ WF_vars(BlockingPoll)
    /\ WF_vars(BlockingRead)

(***************************************************************************)
(* SpecI2cDevice: an I2cDevice on a register memory; phase is "device"     *)
(* while the handle exists.                                                *)
(***************************************************************************)
I2cDeviceNew ==
    /\ phase = "none"
    /\ \E a \in Addresses :
         /\ address' = a
         /\ result' = [op |-> "I2cDevice::new", args |-> <<a>>, ok |-> TRUE, val |-> Unit]
    /\ phase' = "device"
    /\ log' = <<>>
    /\ UNCHANGED <<self, device>>

Write ==
    /\ phase = "device"
    /\ \E data \in DataSamples, f \in 0..1 :
         Returns("write", <<data>>, write(address, data), f)
    /\ device' = DeviceAfter(device, log')
    /\ UNCHANGED <<phase, address, self>>

Read ==
    /\ phase = "device"
    /\ \E n \in 1..2 : \E buf \in [1..n -> ByteSamples], f \in 0..1 :
         Returns("read", <<n>>, read(address, buf), f)
    /\ device' = DeviceAfter(device, log')
    /\ UNCHANGED <<phase, address, self>>

WriteRead ==
    /\ phase = "device"
    /\ \E reg \in Reg16Samples, n \in 1..2 :
         \E buf \in Supplied(device, reg, n, ByteSamples), f \in 0..1 :
           Returns("write_read", <<u16_to_be_bytes(reg), n>>,
                   write_read(address, u16_to_be_bytes(reg), buf), f)
    /\ device' = DeviceAfter(device, log')
    /\ UNCHANGED <<phase, address, self>>

WriteReg ==
    /\ phase = "device"
    /\ \E reg \in Reg8Samples, value \in Value8Samples, f \in 0..1 :
         Returns("write_reg", <<reg, value>>, write_reg(address, reg, value), f)
    /\ device' = DeviceAfter(device, log')
    /\ UNCHANGED <<phase, address, self>>

ReadReg ==
    /\ phase = "device"
    /\ \E reg \in Reg8Samples, buf \in [1..1 -> ByteSamples], f \in 0..1 :
         Returns("read_reg", <<reg>>, read_reg(address, reg, buf), f)
    /\ device' = DeviceAfter(device, log')
    /\ UNCHANGED <<phase, address, self>>

ReadRegs ==
    /\ phase = "device"
    /\ \E reg \in Reg8Samples, n \in 1..2 : \E buf \in [1..n -> ByteSamples], f \in 0..1 :
         Returns("read_regs", <<reg, n>>, read_regs(address, reg, buf), f)
    /\ device' = DeviceAfter(device, log')
    /\ UNCHANGED <<phase, address, self>>

WriteReg16U8 ==
    /\ phase = "device"
    /\ \E reg \in Reg16Samples, value \in Value8Samples, f \in 0..1 :
         Returns("write_reg16_u8", <<reg, value>>, write_reg16_u8(address, reg, value), f)
    /\ device' = DeviceAfter(device, log')
    /\ UNCHANGED <<phase, address, self>>

WriteReg16U16 ==
    /\ phase = "device"
    /\ \E reg \in Reg16Samples, value \in Value16Samples, f \in 0..1 :
         Returns("write_reg16_u16", <<reg, value>>, write_reg16_u16(address, reg, value), f)
    /\ device' = DeviceAfter(device, log')
    /\ UNCHANGED <<phase, address, self>>

WriteReg16U32 ==
    /\ phase = "device"
    /\ \E reg \in Reg16Samples, value \in Value32Samples, f \in 0..1 :
         Returns("write_reg16_u32", <<reg, value>>, write_reg16_u32(address, reg, value), f)
    /\ device' = DeviceAfter(device, log')
    /\ UNCHANGED <<phase, address, self>>

ReadReg16U8 ==
    /\ phase = "device"
    /\ \E reg \in Reg16Samples :
         \E buf \in Supplied(device, reg, 1, ByteSamples), f \in 0..1 :
           Returns("read_reg16_u8", <<reg>>, read_reg16_u8(address, reg, buf), f)
    /\ device' = DeviceAfter(device, log')
    /\ UNCHANGED <<phase, address, self>>

ReadReg16U16 ==
    /\ phase = "device"
    /\ \E reg \in Reg16Samples :
         \E buf \in Supplied(device, reg, 2, ByteSamples), f \in 0..1 :
           Returns("read_reg16_u16", <<reg>>, read_reg16_u16(address, reg, buf), f)
    /\ device' = DeviceAfter(device, log')
    /\ UNCHANGED <<phase, address, self>>

I2cDeviceRelease ==
    /\ phase = "device"
    /\ phase' = "none"
    /\ log' = <<>>
    /\ result' = [op |-> "I2cDevice::release", args |-> <<>>, ok |-> TRUE, val |-> Unit]
    /\ UNCHANGED <<address, self, device>>

InitI2cDevice ==
    /\ phase = "none"
    /\ address = 0
    /\ log = <<>>
    /\ result = NoCall
    /\ self = <<>>
    /\ device = Memory

NextI2cDevice ==
    \/ I2cDeviceNew
    \/ Write
    \/ Read
    \/ WriteRead
    \/ WriteReg
    \/ ReadReg
    \/ ReadRegs
    \/ WriteReg16U8
    \/ WriteReg16U16
    \/ WriteReg16U32
    \/ ReadReg16U8
    \/ ReadReg16U16
    \/ I2cDeviceRelease

SpecI2cDevice == InitI2cDevice /\ [][NextI2cDevice]_vars

(***************************************************************************)
(* SpecKnob: a Knob; phase is "knob" while the driver exists.  The knob    *)
(* keeps no register: what it reports is any of KnobReports.               *)
(***************************************************************************)
KnobNewWithAddress(A) ==
    /\ phase = "none"
    /\ \E a \in A, buf \in KnobReports :
         LET knob == [value |-> 0, pressed |-> FALSE, range |-> NoRange] IN
         \E f \in 0..Len(update(a, knob, buf).txns) :
           /\ log' = Run(update(a, knob, buf).txns, f)
           /\ result' = [op |-> "new", args |-> <<a>>, ok |-> (f = 0),
                         val |-> IF f = 0 THEN Unit ELSE "I2c"]
           /\ self' = IF f = 0 THEN update(a, knob, buf).self ELSE self
           /\ phase' = IF f = 0 THEN "knob" ELSE "none"
           /\ address' = IF f = 0 THEN a ELSE address
    /\ UNCHANGED device

KnobNew == KnobNewWithAddress({KNOB[1]})

KnobUpdate ==
    /\ phase = "knob"
    /\ \E buf \in KnobReports :
         \E f \in 0..Len(update(address, self, buf).txns) :
           ReturnsSelf("update", <<>>, update(address, self, buf), f)
    /\ UNCHANGED <<phase, address, device>>

KnobSetValue ==
    /\ phase = "knob"
    /\ \E value \in KnobValues :
         \E f \in 0..Len(set_value(address, self, value).txns) :
           ReturnsSelf("set_value", <<value>>, set_value(address, self, value), f)
    /\ UNCHANGED <<phase, address, device>>

KnobReset ==
    /\ phase = "knob"
    /\ \E f \in 0..Len(reset(address, self).txns) :
         ReturnsSelf("reset", <<>>, reset(address, self), f)
    /\ UNCHANGED <<phase, address, device>>

KnobSetRange ==
    /\ phase = "knob"
    /\ \E r \in KnobRanges :
         ReturnsSelf("set_range", r, set_range(self, r[1], r[2]), 0)
    /\ UNCHANGED <<phase, address, device>>

KnobClearRange ==
    /\ phase = "knob"
    /\ ReturnsSelf("clear_range", <<>>, Knob_clear_range(self), 0)
    /\ UNCHANGED <<phase, address, device>>

KnobRotationDelta ==
    /\ phase = "knob"
    /\ \E previous_value \in KnobValues \cup {-16385, -16384, 16384, 16385, 32767} :
         ReturnsSelf("rotation_delta", <<previous_value>>,
                     rotation_delta(self, previous_value), 0)
    /\ UNCHANGED <<phase, address, device>>

KnobRelease ==
    /\ phase = "knob"
    /\ phase' = "none"
    /\ log' = <<>>
    /\ result' = [op |-> "release", args |-> <<>>, ok |-> TRUE, val |-> Unit]
    /\ UNCHANGED <<address, self, device>>

InitKnob ==
    /\ phase = "none"
    /\ address = 0
    /\ log = <<>>
    /\ result = NoCall
    /\ self = [value |-> 0, pressed |-> FALSE, range |-> NoRange]
    /\ device = <<>>

NextKnob ==
    \/ KnobNew
    \/ KnobNewWithAddress(KnobAddresses)
    \/ KnobUpdate
    \/ KnobSetValue
    \/ KnobReset
    \/ KnobSetRange
    \/ KnobClearRange
    \/ KnobRotationDelta
    \/ KnobRelease

SpecKnob == InitKnob /\ [][NextKnob]_vars

(***************************************************************************)
(* SpecPixels: a Pixels driver; phase is "pixels" while the driver exists. *)
(***************************************************************************)
PixelsNewWithAddress(A) ==
    /\ phase = "none"
    /\ \E a \in A :
         /\ ReturnsSelf("new", <<a>>, Pixels_new_with_address(a), 0)
         /\ address' = a
    /\ phase' = "pixels"
    /\ UNCHANGED device

PixelsNew == PixelsNewWithAddress({PIXELS})

PixelsSetColor ==
    /\ phase = "pixels"
    /\ \E index \in LedIndexSamples, color \in ColorSamples, brightness \in BrightnessSamples :
         ReturnsSelf("set_color", <<index, color, brightness>>,
                     set_color(self, index, color, brightness), 0)
    /\ UNCHANGED <<phase, address, device>>

PixelsSetRgb ==
    /\ phase = "pixels"
    /\ \E index \in LedIndexSamples, color \in ColorSamples \ {BLACK} :
         ReturnsSelf("set_rgb", <<index, color.r, color.g, color.b, 255>>,
                     set_rgb(self, index, color.r, color.g, color.b, 255), 0)
    /\ UNCHANGED <<phase, address, device>>

PixelsSetBrightness ==
    /\ phase = "pixels"
    /\ \E index \in LedIndexSamples, brightness \in {0, 50} :
         ReturnsSelf("set_brightness", <<index, brightness>>,
                     set_brightness(self, index, brightness), 0)
    /\ UNCHANGED <<phase, address, device>>

PixelsSetAllColor ==
    /\ phase = "pixels"
    /\ \E color \in ColorSamples, brightness \in BrightnessSamples :
         ReturnsSelf("set_all_color", <<color, brightness>>,
                     set_all_color(self, color, brightness), 0)
    /\ UNCHANGED <<phase, address, device>>

PixelsSetAllRgb ==
    /\ phase = "pixels"
    /\ \E color \in ColorSamples \ {BLACK} :
         ReturnsSelf("set_all_rgb", <<color.r, color.g, color.b, 255>>,
                     set_all_rgb(self, color.r, color.g, color.b, 255), 0)
    /\ UNCHANGED <<phase, address, device>>

PixelsSetRangeColor ==
    /\ phase = "pixels"
    /\ \E from \in FromSamples, to \in ToSamples, color \in ColorSamples \ {BLACK} :
         ReturnsSelf("set_range_color", <<from, to, color, 100>>,
                     set_range_color(self, from, to, color, 100), 0)
    /\ UNCHANGED <<phase, address, device>>

PixelsSetAllBrightness ==
    /\ phase = "pixels"
    /\ \E brightness \in BrightnessSamples :
         ReturnsSelf("set_all_brightness", <<brightness>>,
                     set_all_brightness(self, brightness), 0)
    /\ UNCHANGED <<phase, address, device>>

PixelsClear ==
    /\ phase = "pixels"
    /\ \E index \in LedIndexSamples :
         ReturnsSelf("clear", <<index>>, clear(self, index), 0)
    /\ UNCHANGED <<phase, address, device>>

PixelsClearRange ==
    /\ phase = "pixels"
    /\ \E from \in FromSamples, to \in ToSamples :
         ReturnsSelf("clear_range", <<from, to>>, Pixels_clear_range(self, from, to), 0)
    /\ UNCHANGED <<phase, address, device>>

PixelsClearAll ==
    /\ phase = "pixels"
    /\ ReturnsSelf("clear_all", <<>>, clear_all(self), 0)
    /\ UNCHANGED <<phase, address, device>>

PixelsShow ==
    /\ phase = "pixels"
    /\ \E f \in 0..1 : ReturnsSelf("show", <<>>, show(address, self), f)
    /\ UNCHANGED <<phase, address, device>>

\* set_color has changed the buffer before show can fail
PixelsSetColorShow ==
    /\ phase = "pixels"
    /\ \E index \in LedIndexSamples, color \in ColorSamples \ {BLACK} :
         LET call == set_color_show(address, self, index, color, 100) IN
         \E f \in 0..Len(call.txns) :
           /\ log' = Run(call.txns, f)
           /\ result' = [op |-> "set_color_show", args |-> <<index, color, 100>>,
                         ok |-> (f = 0 /\ call.ok),
                         val |-> IF f = 0 THEN call.val ELSE "I2c"]
           /\ self' = call.self
    /\ UNCHANGED <<phase, address, device>>

PixelsRelease ==
    /\ phase = "pixels"
    /\ phase' = "none"
    /\ log' = <<>>
    /\ result' = [op |-> "release", args |-> <<>>, ok |-> TRUE, val |-> Unit]
    /\ UNCHANGED <<address, self, device>>

InitPixels ==
    /\ phase = "none"
    /\ address = 0
    /\ log = <<>>
    /\ result = NoCall
    /\ self = [data |-> <<>>]
    /\ device = <<>>

NextPixels ==
    \/ PixelsNew
    \/ PixelsNewWithAddress(PixelsAddresses)
    \/ PixelsSetColor
    \/ PixelsSetRgb
    \/ PixelsSetBrightness
    \/ PixelsSetAllColor
    \/ PixelsSetAllRgb
    \/ PixelsSetRangeColor
    \/ PixelsSetAllBrightness
    \/ PixelsClear
    \/ PixelsClearRange
    \/ PixelsClearAll
    \/ PixelsShow
    \/ PixelsSetColorShow
    \/ PixelsRelease

SpecPixels == InitPixels /\ [][NextPixels]_vars

(***************************************************************************)
(* SpecJoystick: a Joystick; phase is "joystick" while the driver exists.  *)
(***************************************************************************)
JoystickNewWithAddress(A) ==
    /\ phase = "none"
    /\ \E a \in A, buf \in JoystickReports, f \in 0..1 :
         LET joystick == [x |-> 0, y |-> 0, button_pressed |-> FALSE,
                          deadzone |-> DEFAULT_DEADZONE]
         IN  /\ log' = Run(Joystick_update(a, joystick, buf).txns, f)
             /\ result' = [op |-> "new", args |-> <<a>>, ok |-> (f = 0),
                           val |-> IF f = 0 THEN Unit ELSE "I2c"]
             /\ self' = IF f = 0 THEN Joystick_update(a, joystick, buf).self ELSE self
             /\ phase' = IF f = 0 THEN "joystick" ELSE "none"
             /\ address' = IF f = 0 THEN a ELSE address
    /\ UNCHANGED device

JoystickNew == JoystickNewWithAddress({JOYSTICK})

JoystickUpdate ==
    /\ phase = "joystick"
    /\ \E buf \in JoystickReports, f \in 0..1 :
         ReturnsSelf("update", <<>>, Joystick_update(address, self, buf), f)
    /\ UNCHANGED <<phase, address, device>>

JoystickSetDeadzone ==
    /\ phase = "joystick"
    /\ \E deadzone \in DeadzoneSamples :
         ReturnsSelf("set_deadzone", <<deadzone>>, set_deadzone(self, deadzone), 0)
    /\ UNCHANGED <<phase, address, device>>

JoystickIsCentered ==
    /\ phase = "joystick"
    /\ ReturnsSelf("is_centered", <<>>, is_centered(self), 0)
    /\ UNCHANGED <<phase, address, device>>

JoystickRelease ==
    /\ phase = "joystick"
    /\ phase' = "none"
    /\ log' = <<>>
    /\ result' = [op |-> "release", args |-> <<>>, ok |-> TRUE, val |-> Unit]
    /\ UNCHANGED <<address, self, device>>

InitJoystick ==
    /\ phase = "none"
    /\ address = 0
    /\ log = <<>>
    /\ result = NoCall
    /\ self = [x |-> 0, y |-> 0, button_pressed |-> FALSE, deadzone |-> DEFAULT_DEADZONE]
    /\ device = <<>>

NextJoystick ==
    \/ JoystickNew
    \/ JoystickNewWithAddress(JoystickAddresses)
    \/ JoystickUpdate
    \/ JoystickSetDeadzone
    \/ JoystickIsCentered
    \/ JoystickRelease

SpecJoystick == InitJoystick /\ [][NextJoystick]_vars

(***************************************************************************)
(* SpecButtons: a Buttons driver; phase is "buttons" while it exists.      *)
(***************************************************************************)
ButtonsNewWithAddress(A) ==
    /\ phase = "none"
    /\ \E a \in A, buf \in ButtonsReports, f \in 0..1 :
         LET buttons == [led_a |-> FALSE, led_b |-> FALSE, led_c |-> FALSE,
                         current_state |-> ButtonState(FALSE, FALSE, FALSE)]
         IN  /\ log' = Run(Buttons_read(a, buttons, buf).txns, f)
             /\ result' = [op |-> "new", args |-> <<a>>, ok |-> (f = 0),
                           val |-> IF f = 0 THEN Unit ELSE "I2c"]
             /\ self' = IF f = 0 THEN Buttons_read(a, buttons, buf).self ELSE self
             /\ phase' = IF f = 0 THEN "buttons" ELSE "none"
             /\ address' = IF f = 0 THEN a ELSE address
    /\ UNCHANGED device

ButtonsNew == ButtonsNewWithAddress({BUTTONS})

ButtonsRead ==
    /\ phase = "buttons"
    /\ \E buf \in ButtonsReports, f \in 0..1 :
         ReturnsSelf("read", <<>>, Buttons_read(address, self, buf), f)
    /\ UNCHANGED <<phase, address, device>>

ButtonsState ==
    /\ phase = "buttons"
    /\ ReturnsSelf("state", <<>>, state(self), 0)
    /\ UNCHANGED <<phase, address, device>>

ButtonPressed ==
    /\ phase = "buttons"
    /\ \/ ReturnsSelf("button_a_pressed", <<>>, button_a_pressed(self), 0)
       \/ ReturnsSelf("button_b_pressed", <<>>, button_b_pressed(self), 0)
       \/ ReturnsSelf("button_c_pressed", <<>>, button_c_pressed(self), 0)
    /\ UNCHANGED <<phase, address, device>>

\* buttons.led_a.set(on) etc. on the public LED fields
ButtonsLedSet ==
    /\ phase = "buttons"
    /\ \E on \in BOOLEAN :
         \/ self' = [self EXCEPT !.led_a = on]
         \/ self' = [self EXCEPT !.led_b = on]
         \/ self' = [self EXCEPT !.led_c = on]
    /\ log' = <<>>
    /\ result' = [op |-> "led.set", args |-> <<>>, ok |-> TRUE, val |-> Unit]
    /\ UNCHANGED <<phase, address, device>>

ButtonsUpdateLeds ==
    /\ phase = "buttons"
    /\ \E f \in 0..1 : ReturnsSelf("update_leds", <<>>, update_leds(address, self), f)
    /\ UNCHANGED <<phase, address, device>>

ButtonsSetLeds ==
    /\ phase = "buttons"
    /\ \E la \in BOOLEAN, lb \in BOOLEAN, lc \in BOOLEAN, f \in 0..1 :
         /\ log' = Run(set_leds(address, self, la, lb, lc).txns, f)
         /\ result' = [op |-> "set_leds", args |-> <<la, lb, lc>>, ok |-> (f = 0),
                       val |-> IF f = 0 THEN Unit ELSE "I2c"]
         /\ self' = set_leds(address, self, la, lb, lc).self
    /\ UNCHANGED <<phase, address, device>>

ButtonsAllLeds ==
    /\ phase = "buttons"
    /\ \E f \in 0..1 :
         \/ /\ log' = Run(all_leds_off(address, self).txns, f)
            /\ result' = [op |-> "all_leds_off", args |-> <<>>, ok |-> (f = 0),
                          val |-> IF f = 0 THEN Unit ELSE "I2c"]
            /\ self' = all_leds_off(address, self).self
         \/ /\ log' = Run(all_leds_on(address, self).txns, f)
            /\ result' = [op |-> "all_leds_on", args |-> <<>>, ok |-> (f = 0),
                          val |-> IF f = 0 THEN Unit ELSE "I2c"]
            /\ self' = all_leds_on(address, self).self
    /\ UNCHANGED <<phase, address, device>>

ButtonsRelease ==
    /\ phase = "buttons"
    /\ phase' = "none"
    /\ log' = <<>>
    /\ result' = [op |-> "release", args |-> <<>>, ok |-> TRUE, val |-> Unit]
    /\ UNCHANGED <<address, self, device>>

InitButtons ==
    /\ phase = "none"
    /\ address = 0
    /\ log = <<>>
    /\ result = NoCall
    /\ self = [led_a |-> FALSE, led_b |-> FALSE, led_c |-> FALSE,
               current_state |-> ButtonState(FALSE, FALSE, FALSE)]
    /\ device = <<>>

NextButtons ==
    \/ ButtonsNew
    \/ ButtonsNewWithAddress(ButtonsAddresses)
    \/ ButtonsRead
    \/ ButtonsState
    \/ ButtonPressed
    \/ ButtonsLedSet
    \/ ButtonsUpdateLeds
    \/ ButtonsSetLeds
    \/ ButtonsAllLeds
    \/ ButtonsRelease

SpecButtons == InitButtons /\ [][NextButtons]_vars

(***************************************************************************)
(* SpecLatchRelay: a LatchRelay; phase is "relay" while the driver exists. *)
(***************************************************************************)
LatchRelayNewWithAddress(A) ==
    /\ phase = "none"
    /\ \E a \in A :
         /\ address' = a
         /\ result' = [op |-> "new", args |-> <<a>>, ok |-> TRUE, val |-> Unit]
    /\ phase' = "relay"
    /\ log' = <<>>
    /\ UNCHANGED <<self, device>>

LatchRelayNew == LatchRelayNewWithAddress({LATCH_RELAY})

LatchRelayOn ==
    /\ phase = "relay"
    /\ \E f \in 0..1 : Returns("on", <<>>, LatchRelay_on(address), f)
    /\ UNCHANGED <<phase, address, self, device>>

LatchRelayOff ==
    /\ phase = "relay"
    /\ \E f \in 0..1 : Returns("off", <<>>, LatchRelay_off(address), f)
    /\ UNCHANGED <<phase, address, self, device>>

LatchRelaySet ==
    /\ phase = "relay"
    /\ \E on \in BOOLEAN, f \in 0..1 : Returns("set", <<on>>, LatchRelay_set(address, on), f)
    /\ UNCHANGED <<phase, address, self, device>>

LatchRelayToggle ==
    /\ phase = "relay"
    /\ \E buf \in LatchRelayReports, f \in 0..2 :
         Returns("toggle", <<>>, toggle(address, buf), f)
    /\ UNCHANGED <<phase, address, self, device>>

LatchRelayIsOn ==
    /\ phase = "relay"
    /\ \E buf \in LatchRelayReports, f \in 0..1 :
         Returns("is_on", <<>>, is_on(address, buf), f)
    /\ UNCHANGED <<phase, address, self, device>>

LatchRelayRelease ==
    /\ phase = "relay"
    /\ phase' = "none"
    /\ log' = <<>>
    /\ result' = [op |-> "release", args |-> <<>>, ok |-> TRUE, val |-> Unit]
    /\ UNCHANGED <<address, self, device>>

InitLatchRelay ==
    /\ phase = "none"
    /\ address = 0
    /\ log = <<>>
    /\ result = NoCall
    /\ self = <<>>
    /\ device = <<>>

NextLatchRelay ==
    \/ LatchRelayNew
    \/ LatchRelayNewWithAddress(LatchRelayAddresses)
    \/ LatchRelayOn
    \/ LatchRelayOff
    \/ LatchRelaySet
    \/ LatchRelayToggle
    \/ LatchRelayIsOn
    \/ LatchRelayRelease

SpecLatchRelay == InitLatchRelay /\ [][NextLatchRelay]_vars

(***************************************************************************)
(* SpecMovement: a Movement driver; phase is "movement" while it exists.   *)
(***************************************************************************)
MovementNewWithAddress(A) ==
    /\ phase = "none"
    /\ \E a \in A, who \in WhoAmISamples :
         LET call == Movement_new_with_address(a, <<who>>) IN
         \E f \in 0..Len(call.txns) :
           /\ log' = Run(call.txns, f)
           /\ result' = [op |-> "new", args |-> <<a>>, ok |-> (f = 0 /\ call.ok),
                         val |-> IF f = 0 THEN call.val ELSE "I2c"]
           /\ phase' = IF f = 0 /\ call.ok THEN "movement" ELSE "none"
           /\ address' = IF f = 0 /\ call.ok THEN a ELSE address
    /\ UNCHANGED <<self, device>>

MovementNew == MovementNewWithAddress({MOVEMENT[1]})

MovementDataReady ==
    /\ phase = "movement"
    /\ \E status \in U8, f \in 0..1 :
         Returns("data_ready", <<>>, Movement_data_ready(address, <<status>>), f)
    /\ UNCHANGED <<phase, address, self, device>>

MovementRelease ==
    /\ phase = "movement"
    /\ phase' = "none"
    /\ log' = <<>>
    /\ result' = [op |-> "release", args |-> <<>>, ok |-> TRUE, val |-> Unit]
    /\ UNCHANGED <<address, self, device>>

InitMovement ==
    /\ phase = "none"
    /\ address = 0
    /\ log = <<>>
    /\ result = NoCall
    /\ self = <<>>
    /\ device = <<>>

NextMovement ==
    \/ MovementNew
    \/ MovementNewWithAddress(MovementAddresses)
    \/ MovementDataReady
    \/ MovementRelease

SpecMovement == InitMovement /\ [][NextMovement]_vars

(***************************************************************************)
(* SpecVibro: a Vibro driver; phase is "vibro" while it exists.            *)
(***************************************************************************)
VibroNewWithAddress(A) ==
    /\ phase = "none"
    /\ \E a \in A, f \in 0..1 :
         /\ ReturnsSelf("new", <<a>>, Vibro_new_with_address(a), f)
         /\ phase' = IF f = 0 THEN "vibro" ELSE "none"
         /\ address' = IF f = 0 THEN a ELSE address
    /\ UNCHANGED device

VibroNew == VibroNewWithAddress({VIBRO})

VibroSetFrequency ==
    /\ phase = "vibro"
    /\ \E frequency \in FrequencySamples :
         /\ self' = set_frequency(self, frequency)
         /\ log' = <<>>
         /\ result' = [op |-> "set_frequency", args |-> <<frequency>>,
                       ok |-> TRUE, val |-> Unit]
    /\ UNCHANGED <<phase, address, device>>

VibroOn ==
    /\ phase = "vibro"
    /\ \E duration_ms \in DurationSamples, power \in PowerLevel, f \in 0..1 :
         Returns("on", <<duration_ms, power>>,
                 Vibro_on(address, self, duration_ms, power), f)
    /\ UNCHANGED <<phase, address, self, device>>

VibroOnWithPower ==
    /\ phase = "vibro"
    /\ \E duration_ms \in DurationSamples, power \in PowerSamples, f \in 0..1 :
         Returns("on_with_power", <<duration_ms, power>>,
                 on_with_power(address, self, duration_ms, power), f)
    /\ UNCHANGED <<phase, address, self, device>>

VibroOnContinuous ==
    /\ phase = "vibro"
    /\ \E power \in PowerLevel, f \in 0..1 :
         Returns("on_continuous", <<power>>, on_continuous(address, self, power), f)
    /\ UNCHANGED <<phase, address, self, device>>

VibroPulse ==
    /\ phase = "vibro"
    /\ \E on_ms \in DurationSamples, power \in PowerLevel, f \in 0..1 :
         Returns("pulse", <<on_ms, power>>, pulse(address, self, on_ms, power), f)
    /\ UNCHANGED <<phase, address, self, device>>

VibroOff ==
    /\ phase = "vibro"
    /\ \E f \in 0..1 :
         \/ Returns("off", <<>>, Vibro_off(address), f)
         \/ Returns("stop", <<>>, Vibro_stop(address), f)
    /\ UNCHANGED <<phase, address, self, device>>

VibroRelease ==
    /\ phase = "vibro"
    /\ phase' = "none"
    /\ log' = <<>>
    /\ result' = [op |-> "release", args |-> <<>>, ok |-> TRUE, val |-> Unit]
    /\ UNCHANGED <<address, self, device>>

InitVibro ==
    /\ phase = "none"
    /\ address = 0
    /\ log = <<>>
    /\ result = NoCall
    /\ self = [frequency |-> DEFAULT_FREQUENCY]
    /\ device = <<>>

NextVibro ==
    \/ VibroNew
    \/ VibroNewWithAddress(VibroAddresses)
    \/ VibroSetFrequency
    \/ VibroOn
    \/ VibroOnWithPower
    \/ VibroOnContinuous
    \/ VibroPulse
    \/ VibroOff
    \/ VibroRelease

SpecVibro == InitVibro /\ [][NextVibro]_vars

(***************************************************************************)
(* SpecBuzzer: a Buzzer driver; phase is "buzzer" while it exists.         *)
(***************************************************************************)
BuzzerNewWithAddress(A) ==
    /\ phase = "none"
    /\ \E a \in A, f \in 0..1 :
         /\ Returns("new", <<a>>, Buzzer_new_with_address(a), f)
         /\ phase' = IF f = 0 THEN "buzzer" ELSE "none"
         /\ address' = IF f = 0 THEN a ELSE address
    /\ UNCHANGED <<self, device>>

BuzzerNew == BuzzerNewWithAddress({BUZZER})

BuzzerTone ==
    /\ phase = "buzzer"
    /\ \E frequency \in ToneSamples, duration_ms \in DurationSamples, f \in 0..1 :
         Returns("tone", <<frequency, duration_ms>>,
                 tone(address, frequency, duration_ms), f)
    /\ UNCHANGED <<phase, address, self, device>>

BuzzerToneContinuous ==
    /\ phase = "buzzer"
    /\ \E frequency \in ToneSamples, f \in 0..1 :
         Returns("tone_continuous", <<frequency>>, tone_continuous(address, frequency), f)
    /\ UNCHANGED <<phase, address, self, device>>

BuzzerNoTone ==
    /\ phase = "buzzer"
    /\ \E f \in 0..1 :
         \/ Returns("no_tone", <<>>, no_tone(address), f)
         \/ Returns("stop", <<>>, Buzzer_stop(address), f)
    /\ UNCHANGED <<phase, address, self, device>>

BuzzerRelease ==
    /\ phase = "buzzer"
    /\ phase' = "none"
    /\ log' = <<>>
    /\ result' = [op |-> "release", args |-> <<>>, ok |-> TRUE, val |-> Unit]
    /\ UNCHANGED <<address, self, device>>

InitBuzzer ==
    /\ phase = "none"
    /\ address = 0
    /\ log = <<>>
    /\ result = NoCall
    /\ self = <<>>
    /\ device = <<>>

NextBuzzer ==
    \/ BuzzerNew
    \/ BuzzerNewWithAddress(BuzzerAddresses)
    \/ BuzzerTone
    \/ BuzzerToneContinuous
    \/ BuzzerNoTone
    \/ BuzzerRelease

SpecBuzzer == InitBuzzer /\ [][NextBuzzer]_vars

(***************************************************************************)
(* SpecHandles: both kinds of device handle, one at a time, on the sensor. *)
(***************************************************************************)
NextHandles ==
    \/ Next
    \/ NextI2cDevice

SpecHandles == Init /\ [][NextHandles]_vars

(***************************************************************************)
(* Properties of the Distance driver.                                      *)
(***************************************************************************)
Outs == [i \in DOMAIN log |-> log[i].out]

Kinds == [i \in DOMAIN log |-> log[i].kind]

AllOk == \A i \in DOMAIN log : log[i].ok

IsPrefix(s, t) == Len(s) <= Len(t) /\ \A i \in 1..Len(s) : s[i] = t[i]

\* the timing-budget table as documented: ms -> value of both range-config registers
DocumentedBudget(ms) ==
    CASE ms = 10 -> 1 [] ms = 15 -> 2 [] ms = 20 -> 5 [] ms = 33 -> 11
      [] ms = 50 -> 19 [] ms = 100 -> 41 [] ms = 200 -> 85 [] ms = 500 -> 214
      [] OTHER -> 5

\* C1: for every budget_ms, set_timing_budget writes the documented 16-bit
\* big-endian value first to range-config-A (0x005E) and then to
\* range-config-B (0x0061), nothing else, and fails only when the bus fails:
\* it never panics, the second write follows whenever the first succeeded,
\* and it returns Ok whenever both writes succeeded.
C1_TimingBudgetWrites ==
    result.op = "set_timing_budget" =>
        LET v    == DocumentedBudget(result.args[1])
            want == << <<0, 94, v \div 256, v % 256>>, <<0, 97, v \div 256, v % 256>> >>
        IN  /\ result.val # "panic"
            /\ IsPrefix(Outs, want)
            /\ \A i \in DOMAIN log : log[i].kind = "write" /\ log[i].addr = address
            /\ (Len(log) >= 1 /\ log[1].ok) => Len(log) = 2
            /\ result.ok = (Len(log) = 2 /\ AllOk)

C1_Witness ==
    /\ result.op = "set_timing_budget"
    /\ result.args = <<33>>
    /\ result.ok
    /\ Outs = << <<0, 94, 0, 11>>, <<0, 97, 0, 11>> >>

\* 64 * p for a u32 p below 2^26, as a u32
Times64(p) == <<p[1] * 64 + (p[2] \div 1024), (p[2] % 1024) * 64>>

\* C2: for every u32 period_ms, the value set_inter_measurement writes
\* big-endian to register 0x006C is exactly 64 * period_ms (zero for zero).
C2_InterMeasurementTicks ==
    (result.op = "set_inter_measurement" /\ Len(log) = 1) =>
        LET period_ms == result.args[1]
        IN  /\ period_ms[1] < 1024
            /\ log[1].out = <<0, 108>> \o u32_to_be_bytes(Times64(period_ms))

\* C3: data_ready reads one byte from 0x0030 (polarity) and one from 0x0031
\* (status) and returns true exactly when bit 0 of the status byte differs
\* from bit 4 of the polarity byte, whatever the other bits are.
C3_DataReady ==
    (result.op = "data_ready" /\ result.ok) =>
        LET mux == log[2].inp[1]
            tio == log[4].inp[1]
        IN  /\ log[1].out = <<0, 48>>
            /\ log[3].out = <<0, 49>>
            /\ result.val = ((tio % 2) # ((mux \div 16) % 2))

C3_Witness ==
    /\ result.op = "data_ready"
    /\ result.ok
    /\ log[2].inp = <<250>>
    /\ log[4].inp = <<6>>
    /\ result.val = TRUE

\* C4: a read_distance call whose two register reads succeeded has issued
\* exactly one write to the interrupt-clear register 0x0086, with value 0x01,
\* whatever the range-status byte was (also when the result is None).
C4_InterruptCleared ==
    (result.op = "read_distance" /\ Len(log) >= 4 /\ \A i \in 1..4 : log[i].ok) =>
        /\ Cardinality({i \in DOMAIN log :
               log[i].kind = "write" /\ Len(log[i].out) > 2
               /\ log[i].out[1] = 0 /\ log[i].out[2] = 134}) = 1
        /\ Cardinality({i \in DOMAIN log :
               log[i].kind = "write" /\ log[i].out = <<0, 134, 1>>}) = 1

C4_Witness ==
    /\ result.op = "read_distance"
    /\ result.ok
    /\ result.val = None
    /\ log[2].inp = <<31>>
    /\ log[5].out = <<0, 134, 1>>

\* C5: read_distance addresses the range-status register 0x0089 and reads one
\* byte, then the final-range register 0x0096 and reads two bytes, then writes
\* the interrupt clear; it touches nothing else, stops at the first failure,
\* and a distance it reports is the two range bytes decoded big-endian.
C5_ReadOrder ==
    result.op = "read_distance" =>
        /\ IsPrefix(Outs, << <<0, 137>>, <<>>, <<0, 150>>, <<>>, <<0, 134, 1>> >>)
        /\ \A i \in DOMAIN log : log[i].kind = (IF i \in {2, 4} THEN "read" ELSE "write")
        /\ \A i \in DOMAIN log : log[i].addr = address
        /\ \A i \in DOMAIN log : (i \in {2, 4} /\ log[i].ok) => Len(log[i].inp) = i \div 2
        /\ result.ok => Len(log) = 5
        /\ (result.ok /\ result.val.some) =>
               result.val.v = log[4].inp[1] * 256 + log[4].inp[2]

C5_Witness ==
    /\ result.op = "read_distance"
    /\ result.ok
    /\ log[2].inp = <<4>>
    /\ log[4].inp = <<1, 244>>
    /\ result.val = Some(500)

\* C6: every register read of the driver is one write-then-read transaction
\* carrying the 2-byte register index, never a write followed by a separate
\* read; a successful read_distance is exactly write_read([0x00,0x89]),
\* write_read([0x00,0x96]), write([0x00,0x86,0x01]).
C6_RepeatedStartReads ==
    (result.op \in {"data_ready", "read_distance"}) =>
        /\ \A i \in DOMAIN log : log[i].kind # "read"
        /\ (result.op = "read_distance" /\ result.ok) =>
               /\ Kinds = <<"write_read", "write_read", "write">>
               /\ Outs = << <<0, 137>>, <<0, 150>>, <<0, 134, 1>> >>

\* C7: a successful read_distance returns Some exactly when the low 5 bits of
\* the byte read from the range-status register are 0 or 4; bits 5-7 of that
\* byte do not matter.
C7_ValidityFilter ==
    (result.op = "read_distance" /\ result.ok) =>
        (result.val.some <=> (log[2].inp[1] % 32) \in {0, 4})

C7_Witness ==
    /\ result.op = "read_distance"
    /\ result.ok
    /\ log[2].inp = <<228>>
    /\ result.val.some

\* C8 as stated: read_distance returns the raw 16-bit measurement for every
\* range-status code, without filtering on validity.
C8_RawUnfiltered ==
    (result.op = "read_distance" /\ result.ok) =>
        result.val = Some(log[4].inp[1] * 256 + log[4].inp[2])

\* C8 as amended: read_distance returns the raw 16-bit measurement, unchanged,
\* when the range-status code is 0 or 4, and no measurement (None) for every
\* other status code.
C8_RawWhenValid ==
    (result.op = "read_distance" /\ result.ok) =>
        result.val = (IF (log[2].inp[1] % 32) \in {0, 4}
                      THEN Some(log[4].inp[1] * 256 + log[4].inp[2])
                      ELSE None)

C8_Witness ==
    /\ result.op = "read_distance"
    /\ result.ok
    /\ log[2].inp = <<1>>
    /\ log[4].inp = <<1, 244>>
    /\ result.val = None

C10_BootPollFirst ==
    (result.op = "new" /\ Len(log) >= 1) =>
        (Len(log[1].out) = 2 /\ log[1].out = <<0, 229>>)

\* C11: start_ranging issues exactly one write, of the start value 0x40 to the
\* system-start register 0x0087, and stop_ranging exactly one write of 0x00 to
\* the same register; after a successful start the device is Ranging and
\* after a successful stop it is Stopped, whatever its state was before (so
\* repeating a call changes nothing), and no other call and no failed call
\* changes the device's ranging state.
C11_StartStopIdempotent ==
    [][/\ (result'.op = "start_ranging") =>
              /\ Len(log') = 1 /\ log'[1].kind = "write" /\ log'[1].out = <<0, 135, 64>>
              /\ result'.ok => RangingState(device') = "Ranging"
       /\ (result'.op = "stop_ranging") =>
              /\ Len(log') = 1 /\ log'[1].kind = "write" /\ log'[1].out = <<0, 135, 0>>
              /\ result'.ok => RangingState(device') = "Stopped"
       /\ (result'.op \notin {"start_ranging", "stop_ranging"} \/ ~result'.ok) =>
              RangingState(device') = RangingState(device)
      ]_vars

C11_Witness ==
    /\ result.op = "stop_ranging"
    /\ result.ok
    /\ RangingState(device) = "Stopped"
    /\ log[1].out = <<0, 135, 0>>

\* C12: in every Distance operation the first bus transaction that fails is
\* the last one the operation issues (no retry, nothing after it), and the
\* operation returns that transport error; it returns Ok exactly when every
\* transaction it issued succeeded.
C12_FailFast ==
    (result.op \in {"new", "set_timing_budget", "set_inter_measurement", "start_ranging",
                    "stop_ranging", "data_ready", "clear_interrupt", "read_distance"}) =>
        /\ \A i \in DOMAIN log : ~log[i].ok => i = Len(log)
        /\ result.ok = AllOk
        /\ ~AllOk => result.val = "I2c"
        /\ (result.op = "new" /\ ~result.ok) => phase = "none"

C12_Witness ==
    /\ result.op = "set_timing_budget"
    /\ ~result.ok
    /\ result.val = "I2c"
    /\ Len(log) = 1
    /\ log[1].out = <<0, 94, 0, 11>>
    /\ ~log[1].ok

\* C13: every polling loop of the driver is bounded: a call of
\* read_distance_blocking returns, also when the device never signals data
\* ready or keeps reporting invalid or zero measurements.
C13_BlockingReturns == (phase = "polling") ~> (phase = "ready")

(***************************************************************************)
(* Properties of I2cDevice.                                                *)
(***************************************************************************)
\* C14: every I2cDevice operation issues exactly one bus transaction with
\* the documented payload (register index and value big-endian), a read
\* operation returns the received bytes decoded big-endian, and a failing
\* transaction is returned to the caller without a second attempt.
C14_OneTransaction ==
    (result.op \in {"write", "read", "write_read", "write_reg", "read_reg", "read_regs",
                    "write_reg16_u8", "write_reg16_u16", "write_reg16_u32",
                    "read_reg16_u8", "read_reg16_u16"}) =>
        LET t  == log[1]
            a  == result.args
            hi == a[1] \div 256
            lo == a[1] % 256
        IN  /\ Len(log) = 1
            /\ result.ok = t.ok
            /\ ~t.ok => result.val = "I2c"
            /\ result.op = "write" => t.kind = "write" /\ t.out = a[1]
            /\ result.op = "read" =>
                   t.kind = "read" /\ (t.ok => Len(t.inp) = a[1] /\ result.val = t.inp)
            /\ result.op = "write_read" =>
                   /\ t.kind = "write_read" /\ t.out = a[1]
                   /\ t.ok => Len(t.inp) = a[2] /\ result.val = t.inp
            /\ result.op = "write_reg" => t.kind = "write" /\ t.out = <<a[1], a[2]>>
            /\ result.op = "read_reg" =>
                   /\ t.kind = "write_read" /\ t.out = <<a[1]>>
                   /\ t.ok => Len(t.inp) = 1 /\ result.val = t.inp[1]
            /\ result.op = "read_regs" =>
                   /\ t.kind = "write_read" /\ t.out = <<a[1]>>
                   /\ t.ok => Len(t.inp) = a[2] /\ result.val = t.inp
            /\ result.op = "write_reg16_u8" =>
                   t.kind = "write" /\ t.out = <<hi, lo, a[2]>>
            /\ result.op = "write_reg16_u16" =>
                   t.kind = "write" /\ t.out = <<hi, lo, a[2] \div 256, a[2] % 256>>
            /\ result.op = "write_reg16_u32" =>
                   /\ t.kind = "write"
                   /\ t.out = <<hi, lo, a[2][1] \div 256, a[2][1] % 256,
                                        a[2][2] \div 256, a[2][2] % 256>>
            /\ result.op = "read_reg16_u8" =>
                   /\ t.kind = "write_read" /\ t.out = <<hi, lo>>
                   /\ t.ok => Len(t.inp) = 1 /\ result.val = t.inp[1]
            /\ result.op = "read_reg16_u16" =>
                   /\ t.kind = "write_read" /\ t.out = <<hi, lo>>
                   /\ t.ok => Len(t.inp) = 2 /\ result.val = t.inp[1] * 256 + t.inp[2]

C14_Witness ==
    /\ result.op = "write_reg16_u16"
    /\ result.args = <<65535, 258>>
    /\ log = <<[kind |-> "write", addr |-> address, out |-> <<255, 255, 1, 2>>,
                inp |-> <<>>, ok |-> TRUE]>>

C16_AddressFixed ==
    [][/\ (phase = "none" /\ phase' # "none") => address' = result'.args[1]
       /\ (New /\ result'.ok) => address' = 41
       /\ (phase # "none" /\ phase' # "none") => address' = address
       /\ \A i \in DOMAIN log' :
             log'[i].addr = IF phase = "none" THEN result'.args[1] ELSE address
      ]_vars

C16_Witness ==
    /\ phase = "device"
    /\ address = 82
    /\ result.op = "write_reg16_u8"
    /\ Len(log) = 1 /\ log[1].addr = 82

(***************************************************************************)
(* Properties of Knob.                                                     *)
(***************************************************************************)
\* C17: with a range set, set_value(v) (reset() is set_value(0)) with v
\* outside the range returns OutOfRange, issues no transaction and leaves
\* value() as it was; otherwise it writes [v_lo, v_hi, 0, 0] once, and
\* value() is v once the write succeeded.
C17_SetValueChecked ==
    [][(result'.op \in {"set_value", "reset"}) =>
         LET v       == IF result'.op = "reset" THEN 0 ELSE result'.args[1]
             outside == self.range.some /\ (v < self.range.v[1] \/ v > self.range.v[2])
         IN  /\ outside => /\ ~result'.ok
                           /\ result'.val = "OutOfRange"
                           /\ log' = <<>>
                           /\ self' = self
             /\ ~outside => /\ Len(log') = 1
                            /\ log'[1].kind = "write"
                            /\ log'[1].out = <<v % 256, (v \div 256) % 256, 0, 0>>
                            /\ result'.ok = log'[1].ok
                            /\ self' = IF result'.ok THEN [self EXCEPT !.value = v] ELSE self
      ]_vars

C17_Witness ==
    /\ result.op = "set_value"
    /\ result.args = <<101>>
    /\ result.val = "OutOfRange"
    /\ self.range = Range(-100, 100)
    /\ self.value = 100
    /\ log = <<>>

\* C19: while a range (min, max) with min <= max is set, value() lies in
\* [min, max], after set_range and after every later call, failed or not.
C19_ValueInRange ==
    (phase = "knob" /\ self.range.some /\ self.range.v[1] <= self.range.v[2]) =>
        (self.range.v[1] <= self.value /\ self.value <= self.range.v[2])

C19_Witness ==
    /\ result.op = "update"
    /\ ~result.ok
    /\ Len(log) = 2
    /\ log[1].inp = <<0, 255, 127, 0>>
    /\ self.range = Range(-100, 100)
    /\ self.value = -100

\* C20: update (and construction, which is one update) reads 4 bytes, takes
\* bytes 1-2 as a little-endian signed 16-bit value and byte 3 # 0 as
\* pressed, skipping byte 0; update returns true exactly when the stored
\* (value, pressed) pair differs from the pair before the call, the value
\* being the clamped one when a range is set.
C20_UpdateDecodes ==
    [][(result'.op = "update" \/ (result'.op = "new" /\ phase = "none")) =>
         LET t   == log'[1]
             raw == t.inp[2] + 256 * t.inp[3] - (IF t.inp[3] >= 128 THEN 65536 ELSE 0)
             rng == IF result'.op = "new" THEN NoRange ELSE self.range
         IN  /\ Len(log') >= 1
             /\ t.kind = "read"
             /\ t.ok => Len(t.inp) = 4
             /\ result'.op = "new" => Len(log') = 1
             /\ result'.ok =>
                   /\ self'.pressed = (t.inp[4] # 0)
                   /\ self'.value = IF ~rng.some \/ (rng.v[1] <= raw /\ raw <= rng.v[2])
                                    THEN raw
                                    ELSE IF raw < rng.v[1] THEN rng.v[1] ELSE rng.v[2]
                   /\ result'.op = "update" =>
                         result'.val = (<<self'.value, self'.pressed>> # <<self.value, self.pressed>>)
      ]_vars

C20_Witness ==
    /\ result.op = "update"
    /\ result.ok
    /\ result.val = FALSE
    /\ log[1].inp = <<118, 101, 0, 1>>
    /\ self = [value |-> 100, pressed |-> TRUE, range |-> Range(-100, 100)]

(***************************************************************************)
(* Properties of Pixels.                                                   *)
(***************************************************************************)
\* C18: set_color, set_rgb, set_brightness and clear with index >= 8 return
\* OutOfRange, leave the 32-byte buffer as it was and issue no transaction;
\* set_range_color and clear_range leave every LED outside
\* from..=min(to, 7) as it was.
C18_IndexChecked ==
    [][/\ (/\ result'.op \in {"set_color", "set_rgb", "set_brightness", "clear"}
           /\ result'.args[1] >= 8)
          => /\ ~result'.ok
             /\ result'.val = "OutOfRange"
             /\ log' = <<>>
             /\ Len(self.data) = 32
             /\ self'.data = self.data
       /\ (result'.op \in {"set_range_color", "clear_range"})
          => LET from == result'.args[1]
                 to   == result'.args[2]
                 last == IF to < 7 THEN to ELSE 7
             IN  /\ log' = <<>>
                 /\ Len(self'.data) = 32
                 /\ \A led \in 0..7 :
                       (led < from \/ led > last) =>
                           \A k \in 1..4 : self'.data[4 * led + k] = self.data[4 * led + k]
      ]_vars

C18_Witness ==
    /\ result.op = "set_color"
    /\ result.args[1] = 8
    /\ result.val = "OutOfRange"
    /\ log = <<>>
    /\ SubSeq(self.data, 29, 32) = <<255, 3, 2, 1>>

\* C21: rotation_delta(previous_value) returns 0 exactly when value() equals
\* previous_value, for all signed 16-bit values, also when the difference
\* wraps around.
C21_ZeroIffNoRotation ==
    (result.op = "rotation_delta") =>
        ((result.val = 0) <=> (self.value = result.args[1]))

(***************************************************************************)
(* Properties of Joystick.                                                 *)
(***************************************************************************)
\* C22: after a successful update (construction is one update with the
\* default deadzone 10) reading [_, rx, ry, b], x() is 0 when
\* |rx - 128| < deadzone and rx - 128 otherwise, likewise y(), and
\* button_pressed() is b # 0; update returns true exactly when x, y or the
\* button differ from their values before the call.
C22_AxesNormalized ==
    [][((result'.op = "update" \/ (result'.op = "new" /\ phase = "none")) /\ result'.ok) =>
         LET t  == log'[1]
             dz == IF result'.op = "new" THEN 10 ELSE self.deadzone
             cx == t.inp[2] - 128
             cy == t.inp[3] - 128
         IN  /\ Len(log') = 1 /\ t.kind = "read" /\ Len(t.inp) = 4
             /\ self'.x = IF (cx < dz /\ -cx < dz) THEN 0 ELSE cx
             /\ self'.y = IF (cy < dz /\ -cy < dz) THEN 0 ELSE cy
             /\ self'.button_pressed = (t.inp[4] # 0)
             /\ self'.deadzone = dz
             /\ result'.op = "update" =>
                   result'.val = (<<self'.x, self'.y, self'.button_pressed>>
                                    # <<self.x, self.y, self.button_pressed>>)
      ]_vars

C22_Witness ==
    /\ result.op = "update"
    /\ result.ok
    /\ result.val = TRUE
    /\ log[1].inp = <<88, 255, 0, 1>>
    /\ self = [x |-> 127, y |-> -128, button_pressed |-> TRUE, deadzone |-> 10]

\* the 4 bytes of LED led in a buffer
Entry(data, led) == SubSeq(data, 4 * led + 1, 4 * led + 4)

\* the 5-bit brightness of a brightness given in percent
Brightness5(percent) == ((IF percent > 100 THEN 100 ELSE percent) * 31) \div 100

\* C23: construction issues no transaction and leaves every LED as
\* [0xE0, 0, 0, 0]; set_color / set_rgb / clear on LED i issue no transaction
\* and make its entry [0xE0 | floor(min(brightness, 100) * 31 / 100), blue,
\* green, red] (clear: [0xE0, 0, 0, 0]), set_brightness replaces its byte 0
\* alone, every other LED stays as it was; show issues exactly one write of
\* the 32-byte buffer and leaves the buffer as it was.
C23_ShowWritesBuffer ==
    [][/\ (result'.op = "new" /\ phase = "none") =>
             /\ log' = <<>>
             /\ result'.ok
             /\ Len(self'.data) = 32
             /\ \A led \in 0..7 : Entry(self'.data, led) = <<224, 0, 0, 0>>
       /\ (result'.op \in {"set_color", "set_rgb", "clear", "set_brightness"} /\ result'.ok) =>
             LET a   == result'.args
                 i   == a[1]
                 col == IF result'.op = "set_color" THEN a[2]
                        ELSE IF result'.op = "set_rgb" THEN [r |-> a[2], g |-> a[3], b |-> a[4]]
                        ELSE IF result'.op = "clear" THEN [r |-> 0, g |-> 0, b |-> 0]
                        ELSE [r |-> self.data[4 * i + 4], g |-> self.data[4 * i + 3],
                              b |-> self.data[4 * i + 2]]
                 br  == IF result'.op = "set_color" THEN a[3]
                        ELSE IF result'.op = "set_rgb" THEN a[5]
                        ELSE IF result'.op = "clear" THEN 0
                        ELSE a[2]
             IN  /\ log' = <<>>
                 /\ Len(self'.data) = 32
                 /\ Entry(self'.data, i) = <<224 + Brightness5(br), col.b, col.g, col.r>>
                 /\ \A led \in 0..7 : led # i => Entry(self'.data, led) = Entry(self.data, led)
       /\ (result'.op = "show") =>
             /\ Len(log') = 1
             /\ log'[1].kind = "write"
             /\ log'[1].out = self.data
             /\ Len(log'[1].out) = 32
             /\ result'.ok = log'[1].ok
             /\ self' = self
      ]_vars

C23_Witness ==
    /\ result.op = "show"
    /\ result.ok
    /\ Len(log) = 1
    /\ Entry(log[1].out, 0) = <<239, 3, 2, 1>>
    /\ Entry(log[1].out, 7) = <<224, 0, 0, 0>>

\* C29: once a Pixels driver exists, byte 0 of each of the 8 LED entries has
\* its top three bits set and a brightness of 0..31 in its low five bits,
\* whatever was called with whatever arguments; set_brightness changes
\* byte 0 of the addressed LED and no other byte of the buffer.
C29_BrightnessByte ==
    [][/\ (phase' = "pixels") =>
             /\ Len(self'.data) = 32
             /\ \A led \in 0..7 :
                   /\ self'.data[4 * led + 1] \in 0..255
                   /\ self'.data[4 * led + 1] \div 32 = 7
                   /\ (self'.data[4 * led + 1] % 32) \in 0..31
       /\ (result'.op = "set_brightness") =>
             \A k \in 1..32 :
                 (self'.data[k] # self.data[k]) =>
                     /\ result'.ok
                     /\ k = 4 * result'.args[1] + 1
      ]_vars

C29_Witness ==
    /\ result.op = "set_brightness"
    /\ result.args = <<7, 50>>
    /\ result.ok
    /\ Entry(self.data, 7) = <<239, 3, 2, 1>>
    /\ Entry(self.data, 0) = <<255, 3, 2, 1>>

(***************************************************************************)
(* Properties of Buttons.                                                  *)
(***************************************************************************)
\* C24: read (and construction, which is exactly one read) reads 4 bytes and
\* reports a, b, c as bytes 1, 2, 3 # 0, skipping byte 0; state() and
\* button_a/b/c_pressed() issue no transaction and return the stored state,
\* which only a successful read changes; set_leds(a, b, c) issues one write
\* of [a, b, c] as 0/1.
C24_ButtonsReadAndLeds ==
    [][/\ (result'.op = "read" \/ (result'.op = "new" /\ phase = "none")) =>
             /\ Len(log') = 1
             /\ log'[1].kind = "read"
             /\ result'.ok = log'[1].ok
             /\ result'.ok =>
                   /\ Len(log'[1].inp) = 4
                   /\ self'.current_state = [a |-> log'[1].inp[2] # 0,
                                             b |-> log'[1].inp[3] # 0,
                                             c |-> log'[1].inp[4] # 0]
                   /\ result'.op = "read" => result'.val = self'.current_state
             /\ (result'.op = "read" /\ ~result'.ok) => self' = self
       /\ (result'.op \in {"state", "button_a_pressed", "button_b_pressed",
                           "button_c_pressed"}) =>
             /\ log' = <<>>
             /\ self' = self
             /\ result'.val = (IF result'.op = "state" THEN self.current_state
                               ELSE IF result'.op = "button_a_pressed" THEN self.current_state.a
                               ELSE IF result'.op = "button_b_pressed" THEN self.current_state.b
                               ELSE self.current_state.c)
       /\ (phase = "buttons" /\ phase' = "buttons" /\ result'.op # "read") =>
             self'.current_state = self.current_state
       /\ (result'.op = "set_leds") =>
             /\ Len(log') = 1
             /\ log'[1].kind = "write"
             /\ log'[1].out = <<IF result'.args[1] THEN 1 ELSE 0,
                                IF result'.args[2] THEN 1 ELSE 0,
                                IF result'.args[3] THEN 1 ELSE 0>>
             /\ result'.ok = log'[1].ok
      ]_vars

C24_Witness ==
    /\ result.op = "read"
    /\ ~result.ok
    /\ Len(log) = 1
    /\ self.current_state = [a |-> FALSE, b |-> TRUE, c |-> FALSE]

(***************************************************************************)
(* Properties of LatchRelay.                                               *)
(***************************************************************************)
\* C25: is_on reads 4 bytes, skips byte 0, and returns None exactly when
\* bytes 1 and 2 are both 0, Some(false) exactly when byte 1 is 1, and
\* Some(true) otherwise; on() writes [1,0,0], off() writes [0,0,0];
\* construction issues no transaction.
C25_RelayStatus ==
    /\ (result.op = "is_on") =>
          /\ Len(log) = 1
          /\ log[1].kind = "read"
          /\ result.ok = log[1].ok
          /\ result.ok =>
                LET unknown == log[1].inp[2] = 0 /\ log[1].inp[3] = 0
                    isoff   == log[1].inp[2] = 1
                IN  /\ Len(log[1].inp) = 4
                    /\ (result.val = [some |-> FALSE, v |-> FALSE]) <=> unknown
                    /\ (result.val = [some |-> TRUE, v |-> FALSE]) <=> isoff
                    /\ (result.val = [some |-> TRUE, v |-> TRUE]) <=> (~unknown /\ ~isoff)
    /\ (result.op = "on") =>
          Len(log) = 1 /\ log[1].kind = "write" /\ log[1].out = <<1, 0, 0>>
    /\ (result.op = "off") =>
          Len(log) = 1 /\ log[1].kind = "write" /\ log[1].out = <<0, 0, 0>>
    /\ (result.op = "new") => log = <<>> /\ result.ok /\ phase = "relay"

C25_Witness ==
    /\ result.op = "is_on"
    /\ result.ok
    /\ log[1].inp = <<4, 0, 1, 0>>
    /\ result.val = [some |-> TRUE, v |-> TRUE]

\* C30: toggle first reads the status; when the read fails it returns the
\* error and writes nothing; otherwise it issues exactly one command write,
\* [0,0,0] exactly when the status decodes to on, [1,0,0] when it decodes to
\* off or unknown.
C30_Toggle ==
    (result.op = "toggle") =>
        /\ Len(log) >= 1
        /\ log[1].kind = "read"
        /\ ~log[1].ok => (Len(log) = 1 /\ ~result.ok /\ result.val = "I2c")
        /\ log[1].ok =>
              LET s0   == log[1].inp[2]
                  s1   == log[1].inp[3]
                  isOn == ~(s0 = 0 /\ s1 = 0) /\ s0 # 1
              IN  /\ Len(log) = 2
                  /\ log[2].kind = "write"
                  /\ log[2].out = IF isOn THEN <<0, 0, 0>> ELSE <<1, 0, 0>>
                  /\ result.ok = log[2].ok

C30_Witness ==
    /\ result.op = "toggle"
    /\ result.ok
    /\ log[1].inp = <<4, 0, 0, 0>>
    /\ Len(log) = 2
    /\ log[2].out = <<1, 0, 0>>

(***************************************************************************)
(* Properties of Movement.                                                 *)
(***************************************************************************)
\* C26: construction first issues a write_read of WHO_AM_I (0x0F); when the
\* byte read is not 0x6C it fails with DeviceNotFound and writes nothing;
\* when it is 0x6C the writes [0x12,0x01], [0x10,0x40], [0x11,0x40],
\* [0x12,0x44] follow in this order, and the first one that fails ends
\* construction with the bus error.
C26_IdentityFirst ==
    (result.op = "new") =>
        /\ Len(log) >= 1
        /\ log[1].kind = "write_read"
        /\ log[1].out = <<15>>
        /\ ~log[1].ok => (Len(log) = 1 /\ ~result.ok /\ result.val = "I2c")
        /\ (log[1].ok /\ log[1].inp # <<108>>) =>
              /\ Len(log[1].inp) = 1
              /\ Len(log) = 1
              /\ ~result.ok
              /\ result.val = "DeviceNotFound"
              /\ phase = "none"
        /\ (log[1].ok /\ log[1].inp = <<108>>) =>
              /\ IsPrefix(Outs, <<<<15>>, <<18, 1>>, <<16, 64>>, <<17, 64>>, <<18, 68>>>>)
              /\ \A i \in 2..Len(log) : log[i].kind = "write"
              /\ \A i \in DOMAIN log : ~log[i].ok => i = Len(log)
              /\ AllOk <=> (Len(log) = 5 /\ result.ok /\ phase = "movement")
              /\ ~AllOk => (result.val = "I2c" /\ phase = "none")

C26_Witness ==
    /\ result.op = "new"
    /\ result.val = "DeviceNotFound"
    /\ Len(log) = 1
    /\ log[1].inp = <<109>>
    /\ phase = "none"

(***************************************************************************)
(* Properties of Vibro and Buzzer.                                         *)
(***************************************************************************)
\* C27: Vibro construction issues one write of 12 zero bytes and starts
\* with frequency 1000; on(duration_ms, power) issues one 12-byte write: the
\* current frequency, the duration and the power level value, each as a
\* little-endian 32-bit word; off and stop write 12 zero bytes; set_frequency
\* issues no transaction and stores the frequency that later on() calls send.
C27_VibroPayloads ==
    LET f == self.frequency
        d == result.args[1]
        p == CASE result.args[2] = "Stop" -> 0
               [] result.args[2] = "Gentle" -> 25
               [] result.args[2] = "Moderate" -> 35
               [] result.args[2] = "Medium" -> 45
               [] result.args[2] = "Intense" -> 55
               [] result.args[2] = "Powerful" -> 65
               [] result.args[2] = "Maximum" -> 75
    IN
    /\ (result.op = "new") =>
          /\ Len(log) = 1
          /\ log[1].kind = "write"
          /\ log[1].out = <<0, 0, 0, 0, 0, 0, 0, 0, 0, 0, 0, 0>>
          /\ result.ok = log[1].ok
          /\ result.ok => (phase = "vibro" /\ f = <<0, 1000>>)
          /\ ~result.ok => phase = "none"
    /\ (result.op = "on") =>
          /\ Len(log) = 1
          /\ log[1].kind = "write"
          /\ log[1].addr = address
          /\ log[1].out = <<f[2] % 256, f[2] \div 256, f[1] % 256, f[1] \div 256,
                            d % 256, d \div 256, 0, 0,
                            p, 0, 0, 0>>
          /\ result.ok = log[1].ok
    /\ (result.op \in {"off", "stop"}) =>
          /\ Len(log) = 1
          /\ log[1].kind = "write"
          /\ log[1].out = <<0, 0, 0, 0, 0, 0, 0, 0, 0, 0, 0, 0>>
          /\ result.ok = log[1].ok
    /\ (result.op = "set_frequency") =>
          /\ log = <<>>
          /\ f = result.args[1]

C27_Witness ==
    /\ result.op = "on"
    /\ result.args = <<500, "Medium">>
    /\ result.ok
    /\ self.frequency = <<1, 2>>
    /\ log[1].out = <<2, 0, 1, 0, 244, 1, 0, 0, 45, 0, 0, 0>>

\* C28: Buzzer construction issues one write of 8 zero bytes;
\* tone(frequency, duration_ms) issues one 8-byte write: the frequency and
\* then the duration, each zero-extended to a little-endian 32-bit word;
\* no_tone and stop write 8 zero bytes.
C28_BuzzerPayloads ==
    /\ (result.op = "new") =>
          /\ Len(log) = 1
          /\ log[1].kind = "write"
          /\ log[1].out = <<0, 0, 0, 0, 0, 0, 0, 0>>
          /\ result.ok = log[1].ok
          /\ phase = IF result.ok THEN "buzzer" ELSE "none"
    /\ (result.op = "tone") =>
          /\ Len(log) = 1
          /\ log[1].kind = "write"
          /\ log[1].addr = address
          /\ log[1].out = <<result.args[1] % 256, result.args[1] \div 256, 0, 0,
                            result.args[2] % 256, result.args[2] \div 256, 0, 0>>
          /\ result.ok = log[1].ok
    /\ (result.op \in {"no_tone", "stop"}) =>
          /\ Len(log) = 1
          /\ log[1].kind = "write"
          /\ log[1].out = <<0, 0, 0, 0, 0, 0, 0, 0>>
          /\ result.ok = log[1].ok

C28_Witness ==
    /\ result.op = "tone"
    /\ result.args = <<440, 500>>
    /\ result.ok
    /\ log[1].out = <<184, 1, 0, 0, 244, 1, 0, 0>>

====
